---- MODULE Spec2Model ----
(***************************************************************************)
(* A model of the planning tools of the nationwide LoRa mesh plan:         *)
(*   tools/make_hex_cells.py           the hex tessellator                 *)
(*   tools/seed_tiera_from_corridors.py the Tier-A seeding pass            *)
(*   tools/seed_tierb_sites.py          the Tier-B seeding pass            *)
(*   tools/apply_tiera_coverage.py      the coverage reducer               *)
(* The files under data/ are the state; every pass is one action that      *)
(* reads them and rewrites them wholesale.                                 *)
(*                                                                         *)
(* Numbers.  Coordinates are exact: a vertex is a pair <<lon, lat>> of     *)
(* integers, a computed point is <<lon_num, lat_num, den>> (both           *)
(* coordinates over the common denominator den).  Floating-point rounding  *)
(* is not modelled.                                                        *)
(***************************************************************************)
EXTENDS Integers, Sequences, FiniteSets, TLC

VARIABLES
    hex_cells,          \* data/hex_cells.geojson: the sequence of hex features
    corridors,          \* data/corridors.geojson: the sequence of corridor features
    sites,              \* data/sites.geojson: the sequence of site features
    zone_rollup,        \* data/tierb_after_tiera_by_zone.csv: zone_id -> its row
    tiera_targets,      \* data/tiera_targets_by_corridor.csv: corridor_id -> its row
    tierb_requirements, \* data/tierb_requirements_by_zone.csv: zone_id -> its row
    neighbor_map,       \* the neighbor map the last build_neighbor_map call returned
    satisfied_required, \* the reducer's satisfied_required counter of its last pass
    sites_before,       \* history: sites as the last pass read them
    rollup_before,      \* history: zone_rollup before the last pass
    last_pass,          \* history: the pass that ran last
    prev_pass,          \* history: the pass that ran before it
    pass_result,        \* history: "ok", or "abort" when the last pass raised
    tess,               \* the tessellator's loop variables (make_hex_cells.main)
    zones,              \* data/zones.geojson: the sequence of zone features
    calc                \* the arguments and the result of a function called alone

vars == <<hex_cells, corridors, sites, zone_rollup, tiera_targets,
          tierb_requirements, neighbor_map, satisfied_required, sites_before,
          rollup_before, last_pass, prev_pass, pass_result, tess, zones,
          calc>>

(***************************************************************************)
(* Python values                                                           *)
(***************************************************************************)
\* None, where the field otherwise holds a string.
None == "None"

\* No site id: the value of satisfied_by on a site that has no such key.
NoSite == <<>>

\* Python truthiness of an optional string: neither None nor "".
Truthy(s) == s # None /\ s # ""

\* The empty dict.
EmptyDict == [k \in {} |-> {}]

\* d[k] = v on a dict.
Put(d, k, v) == [x \in DOMAIN d \cup {k} |-> IF x = k THEN v ELSE d[x]]

\* d.get(k, default)
Get(d, k, default) == IF k \in DOMAIN d THEN d[k] ELSE default

Range(s) == {s[i] : i \in DOMAIN s}

Abs(n) == IF n < 0 THEN -n ELSE n

Max(a, b) == IF a >= b THEN a ELSE b

Min(a, b) == IF a <= b THEN a ELSE b

\* int(x or 0) of an optional integer, <<>> for None and <<n>> for n.
IntOr0(x) == IF x = <<>> THEN 0 ELSE x[1]

(***************************************************************************)
(* apply_tiera_coverage.py: the adjacency index                            *)
(***************************************************************************)
\* Whether iter_vertices raises ValueError on the geometry.
iter_vertices_raises(geometry) ==
    geometry.type \notin {"Polygon", "MultiPolygon"}

\* A variant of iter_vertices that walks the outer ring only (of the first
\* polygon of a MultiPolygon).
iter_vertices_outer_ring(geometry) ==
    IF geometry.type = "Polygon"
    THEN Range(geometry.coordinates[1])
    ELSE Range(geometry.coordinates[1][1])

\* iter_vertices, collected into the set build_neighbor_map makes of it.
iter_vertices(geometry) ==
    IF geometry.type = "Polygon"
    THEN UNION {Range(ring) : ring \in Range(geometry.coordinates)}
    ELSE UNION {UNION {Range(ring) : ring \in Range(polygon)} :
                    polygon \in Range(geometry.coordinates)}

\* A variant of the first loop that assigns vertex_to_cells[v] = {cell_id}
\* where the code adds cell_id to the set.
RECURSIVE index_features_overwrite(_, _, _)
index_features_overwrite(hex_features, i, acc) ==
    IF i > Len(hex_features) THEN acc
    ELSE LET cell_id == hex_features[i].cell_id IN
         IF ~Truthy(cell_id)
         THEN index_features_overwrite(hex_features, i + 1, acc)
         ELSE LET vertices == iter_vertices(hex_features[i].geometry)
                  v2c == acc.vertex_to_cells
              IN index_features_overwrite(hex_features, i + 1,
                   [cell_vertices |-> Put(acc.cell_vertices, cell_id, vertices),
                    vertex_to_cells |->
                        [v \in DOMAIN v2c \cup vertices |->
                            IF v \in vertices THEN {cell_id} ELSE v2c[v]]])

\* The first loop of build_neighbor_map, from feature i on: acc holds
\* vertex_to_cells and cell_vertices.
RECURSIVE index_features(_, _, _)
index_features(hex_features, i, acc) ==
    IF i > Len(hex_features) THEN acc
    ELSE LET cell_id == hex_features[i].cell_id IN
         IF ~Truthy(cell_id) THEN index_features(hex_features, i + 1, acc)
         ELSE LET vertices == iter_vertices(hex_features[i].geometry)
                  v2c == acc.vertex_to_cells
              IN index_features(hex_features, i + 1,
                   [cell_vertices |-> Put(acc.cell_vertices, cell_id, vertices),
                    vertex_to_cells |->
                        [v \in DOMAIN v2c \cup vertices |->
                            IF v \in vertices
                            THEN Get(v2c, v, {}) \cup {cell_id}
                            ELSE v2c[v]]])

\* Whether build_neighbor_map raises: a feature it does not skip has a
\* geometry iter_vertices rejects.
build_neighbor_map_raises(hex_features) ==
    \E i \in DOMAIN hex_features :
        /\ Truthy(hex_features[i].cell_id)
        /\ iter_vertices_raises(hex_features[i].geometry)

build_neighbor_map(hex_features) ==
    LET idx == index_features(hex_features, 1,
                   [cell_vertices |-> EmptyDict, vertex_to_cells |-> EmptyDict])
    IN [cell_id \in DOMAIN idx.cell_vertices |->
            UNION {Get(idx.vertex_to_cells, vertex, {}) :
                       vertex \in idx.cell_vertices[cell_id]}]

(***************************************************************************)
(* apply_tiera_coverage.py: the coverage reducer                           *)
(*                                                                         *)
(* A site feature is the record                                            *)
(*   [site_id, cell_id, zone_id, tier, status, corridor_id, notes,         *)
(*    geometry, satisfied_by, satisfied_corridor_id]                       *)
(* with site_id a pair <<"S_A", seq>> or <<"S_B", seq>> standing for the   *)
(* zero-padded string the seeders format.                                  *)
(***************************************************************************)
\* The classification loop over sites["features"]: the positions of the
\* features appended to tiera_features.
tiera_features(features) ==
    {i \in DOMAIN features : features[i].tier = "A"}

\* ... to tierb_alt_features.
tierb_alt_features(features) ==
    {i \in DOMAIN features :
        features[i].tier = "B" /\ features[i].notes = "ALT"}

\* ... to tierb_required_features.
tierb_required_features(features) ==
    {i \in DOMAIN features :
        features[i].tier = "B" /\ features[i].notes # "ALT"}

\* The positions of the features listed in tierb_candidates_by_cell.
tierb_candidates(features) ==
    {i \in tierb_required_features(features) :
        features[i].status = "CANDIDATE" /\ Truthy(features[i].cell_id)}

\* A variant of satisfy_hit that records the Tier-A site but not its
\* corridor.
satisfy_hit_without_corridor(tiera_feature, hit, st) ==
    [features |->
        [j \in DOMAIN st.features |->
            IF j \in hit
            THEN [st.features[j] EXCEPT
                    !.status = "SATISFIED",
                    !.satisfied_by = tiera_feature.site_id]
            ELSE st.features[j]],
     satisfied_required |-> st.satisfied_required + Cardinality(hit),
     tiera_used |-> st.tiera_used \cup
                      (IF hit # {} THEN {tiera_feature.site_id} ELSE {})]

\* The write of one Tier-A feature's turn: the features of hit become
\* SATISFIED by tiera_feature.
satisfy_hit(tiera_feature, hit, st) ==
    [features |->
        [j \in DOMAIN st.features |->
            IF j \in hit
            THEN [st.features[j] EXCEPT
                    !.status = "SATISFIED",
                    !.satisfied_by = tiera_feature.site_id,
                    !.satisfied_corridor_id = tiera_feature.corridor_id]
            ELSE st.features[j]],
     satisfied_required |-> st.satisfied_required + Cardinality(hit),
     tiera_used |-> st.tiera_used \cup
                      (IF hit # {} THEN {tiera_feature.site_id} ELSE {})]

\* A variant of satisfy_from whose covered cells are the Tier-A site's own
\* cell only, the neighbor map unused.
satisfy_from_own_cell(tiera_feature, nmap, candidates, st) ==
    satisfy_hit(tiera_feature,
                {j \in candidates :
                    /\ st.features[j].cell_id = tiera_feature.cell_id
                    /\ st.features[j].status = "CANDIDATE"},
                st)

\* A variant of satisfy_from that takes every non-ALT Tier-B feature of a
\* covered cell, whatever its status.
satisfy_from_any_status(tiera_feature, nmap, candidates, st) ==
    satisfy_hit(tiera_feature,
                {j \in tierb_required_features(st.features) :
                    st.features[j].cell_id \in
                        Get(nmap, tiera_feature.cell_id,
                            {tiera_feature.cell_id})},
                st)

\* A variant of satisfy_from without the test that the candidate is still
\* CANDIDATE: a later Tier-A feature overwrites an earlier one.
satisfy_from_last_writer(tiera_feature, nmap, candidates, st) ==
    satisfy_hit(tiera_feature,
                {j \in candidates :
                    st.features[j].cell_id \in
                        Get(nmap, tiera_feature.cell_id,
                            {tiera_feature.cell_id})},
                st)

\* A variant of satisfy_from that also marks the Tier-A feature it used.
satisfy_from_marks_tiera(tiera_feature, nmap, candidates, st) ==
    LET hit == {j \in candidates :
                    /\ st.features[j].cell_id \in
                           Get(nmap, tiera_feature.cell_id,
                               {tiera_feature.cell_id})
                    /\ st.features[j].status = "CANDIDATE"}
        done == satisfy_hit(tiera_feature, hit, st)
    IN [done EXCEPT !.features =
           [j \in DOMAIN done.features |->
               IF hit # {} /\ done.features[j].site_id = tiera_feature.site_id
               THEN [done.features[j] EXCEPT !.notes = "USED"]
               ELSE done.features[j]]]

\* One Tier-A feature's turn in the satisfaction loop: every listed
\* candidate of a covered cell that is still CANDIDATE becomes SATISFIED.
satisfy_from(tiera_feature, nmap, candidates, st) ==
    LET cell_id == tiera_feature.cell_id
        covered_cells == Get(nmap, cell_id, {cell_id})
    IN satisfy_hit(tiera_feature,
                   {j \in candidates :
                       /\ st.features[j].cell_id \in covered_cells
                       /\ st.features[j].status = "CANDIDATE"},
                   st)

\* The satisfaction loop, from feature i on: the Tier-A features in input
\* order, those without a cell_id skipped.
RECURSIVE satisfy_loop(_, _, _, _)
satisfy_loop(nmap, candidates, i, st) ==
    IF i > Len(st.features) THEN st
    ELSE IF st.features[i].tier = "A" /\ Truthy(st.features[i].cell_id)
    THEN satisfy_loop(nmap, candidates, i + 1,
                      satisfy_from(st.features[i], nmap, candidates, st))
    ELSE satisfy_loop(nmap, candidates, i + 1, st)

\* A variant of zone_stats that counts a SATISFIED Tier-B feature in the
\* zone of the Tier-A feature that satisfied it.
zone_stats_by_satisfier(features) ==
    LET zone_of(i) ==
            IF features[i].tier = "B" /\ features[i].status = "SATISFIED"
            THEN LET a == CHOOSE a \in DOMAIN features :
                              features[a].site_id = features[i].satisfied_by
                 IN features[a].zone_id
            ELSE features[i].zone_id
        zoned(idx) == {i \in idx : Truthy(zone_of(i))}
        required == zoned(tierb_required_features(features))
        alt == zoned(tierb_alt_features(features))
        tiera == zoned(tiera_features(features))
        count(idx, z) == Cardinality({i \in idx : zone_of(i) = z})
    IN [z \in {zone_of(i) : i \in required \cup alt \cup tiera} |->
            [tierB_required_before |-> count(required, z),
             tierB_required_after |->
                 count({i \in required : features[i].status # "SATISFIED"}, z),
             tierB_alt_total |-> count(alt, z),
             tierA_sites |-> count(tiera, z)]]

\* A variant of zone_stats whose required-after counts the SATISFIED
\* features where the code counts the others.
zone_stats_counts_satisfied(features) ==
    LET zoned(idx) == {i \in idx : Truthy(features[i].zone_id)}
        required == zoned(tierb_required_features(features))
        alt == zoned(tierb_alt_features(features))
        tiera == zoned(tiera_features(features))
        count(idx, z) == Cardinality({i \in idx : features[i].zone_id = z})
    IN [z \in {features[i].zone_id : i \in required \cup alt \cup tiera} |->
            [tierB_required_before |-> count(required, z),
             tierB_required_after |->
                 count({i \in required : features[i].status = "SATISFIED"}, z),
             tierB_alt_total |-> count(alt, z),
             tierA_sites |-> count(tiera, z)]]

\* The three aggregation loops: zone_stats of the features after the
\* satisfaction loop.  A feature without a zone_id is counted nowhere.
zone_stats(features) ==
    LET zoned(idx) == {i \in idx : Truthy(features[i].zone_id)}
        required == zoned(tierb_required_features(features))
        alt == zoned(tierb_alt_features(features))
        tiera == zoned(tiera_features(features))
        count(idx, z) == Cardinality({i \in idx : features[i].zone_id = z})
    IN [z \in {features[i].zone_id : i \in required \cup alt \cup tiera} |->
            [tierB_required_before |-> count(required, z),
             tierB_required_after |->
                 count({i \in required : features[i].status # "SATISFIED"}, z),
             tierB_alt_total |-> count(alt, z),
             tierA_sites |-> count(tiera, z)]]

\* main of apply_tiera_coverage.py on the two files it loads: what it
\* writes, or that it raised before writing anything.
apply_tiera_coverage(hex_features, features) ==
    IF build_neighbor_map_raises(hex_features)
    THEN [ok |-> FALSE]
    ELSE LET nmap == build_neighbor_map(hex_features)
             st == satisfy_loop(nmap, tierb_candidates(features), 1,
                       [features |-> features, satisfied_required |-> 0,
                        tiera_used |-> {}])
         IN [ok |-> TRUE,
             neighbor_map |-> nmap,
             features |-> st.features,
             satisfied_required |-> st.satisfied_required,
             tiera_used |-> st.tiera_used,
             zone_stats |-> zone_stats(st.features)]

(***************************************************************************)
(* seed_tierb_sites.py                                                     *)
(*                                                                         *)
(* A hex feature is the record                                             *)
(*   [cell_id, zone_id, geometry, tierB_sites_required,                    *)
(*    tierB_alternate_required]                                            *)
(* with geometry = [type, coordinates] and the two requirements optional   *)
(* integers (<<>> for None).  The properties id and hex_id, which the      *)
(* seeders fall back to, are absent from every feature.                    *)
(***************************************************************************)
REPLACE_SITES_FILE == TRUE

\* The sum of coordinate k over the first n points of ring.
RECURSIVE SumCoord(_, _, _)
SumCoord(ring, k, n) ==
    IF n = 0 THEN 0 ELSE ring[n][k] + SumCoord(ring, k, n - 1)

\* _polygon_area of the ring without its closing point, doubled (the
\* shoelace sum before the division by 2).
polygon_area(points) ==
    LET n == Len(points)
        nxt(i) == IF i = n THEN 1 ELSE i + 1
        RECURSIVE shoelace(_)
        shoelace(i) ==
            IF i = 0 THEN 0
            ELSE points[i][1] * points[nxt(i)][2]
                   - points[nxt(i)][1] * points[i][2] + shoelace(i - 1)
    IN IF n < 3 THEN 0 ELSE Abs(shoelace(n))

\* _centroid_from_ring: the mean of the vertices but the closing one, as
\* the exact point <<sum of lon, sum of lat, count>>.
centroid_from_ring(ring) ==
    LET n == Len(ring) - 1
    IN <<SumCoord(ring, 1, n), SumCoord(ring, 2, n), n>>

\* Whether _get_centroid raises SystemExit.
get_centroid_raises(geom) == geom.type \notin {"Polygon", "MultiPolygon"}

\* _get_centroid: of the outer ring, for a MultiPolygon of the first
\* polygon whose outer ring has the largest area.
get_centroid(geom) ==
    IF geom.type = "Polygon" THEN centroid_from_ring(geom.coordinates[1])
    ELSE LET coords == geom.coordinates
             area(k) == polygon_area(SubSeq(coords[k][1], 1,
                                            Len(coords[k][1]) - 1))
             largest == CHOOSE k \in DOMAIN coords :
                            /\ \A j \in DOMAIN coords : area(j) <= area(k)
                            /\ \A j \in 1..(k - 1) : area(j) < area(k)
         IN centroid_from_ring(coords[largest][1])

base_offsets ==
    << <<-1, -1>>, <<0, -1>>, <<1, -1>>,
       <<-1, 0>>,  <<0, 0>>,  <<1, 0>>,
       <<-1, 1>>,  <<0, 1>>,  <<1, 1>> >>

\* _candidate_points: n points around a centroid c.  A point is
\* <<lon_num, lat_num, den, dx, dy>>: the centroid moved by dx and dy
\* steps of 0.0003 degrees.
candidate_points(c, n) ==
    IF n <= 1 THEN << <<c[1], c[2], c[3], 0, 0>> >>
    ELSE [i \in 1..n |->
            IF i <= Len(base_offsets)
            THEN <<c[1], c[2], c[3], base_offsets[i][1], base_offsets[i][2]>>
            ELSE <<c[1], c[2], c[3], i - Len(base_offsets), 0>>]

\* _next_site_seq: one more than the largest S_B_ number among the features.
RECURSIVE next_site_seq_from(_, _, _)
next_site_seq_from(existing_features, i, max_id) ==
    IF i > Len(existing_features) THEN max_id + 1
    ELSE LET site_id == existing_features[i].site_id
         IN next_site_seq_from(existing_features, i + 1,
                IF site_id # NoSite /\ site_id[1] = "S_B"
                THEN Max(max_id, site_id[2]) ELSE max_id)

next_site_seq(existing_features) == next_site_seq_from(existing_features, 1, 0)

\* _new_site_id: "S_B_" and the number, zero-padded to four digits.
new_site_id(seq) == <<"S_B", seq>>

\* The cell_id the seeders read: cell_id, else id, else hex_id, else None.
hex_cell_id(props) == IF Truthy(props.cell_id) THEN props.cell_id ELSE None

\* Whether the Tier-B loop raises SystemExit on one hex feature.
seed_tierb_feature_raises(hf) ==
    \/ hex_cell_id(hf) = None
    \/ hf.zone_id = None
    \/ /\ IntOr0(hf.tierB_sites_required)
            + IntOr0(hf.tierB_alternate_required) # 0
       /\ get_centroid_raises(hf.geometry)

\* The features the Tier-B loop appends to seeded for one hex feature,
\* numbered from seq.
seed_tierb_feature(hf, seq) ==
    LET req == IntOr0(hf.tierB_sites_required)
        alt == IntOr0(hf.tierB_alternate_required)
        total == req + alt
        pts == candidate_points(get_centroid(hf.geometry), total)
    IN IF total = 0 THEN <<>>
       ELSE [k \in 1..total |->
               [site_id |-> new_site_id(seq + k - 1),
                cell_id |-> hex_cell_id(hf),
                zone_id |-> hf.zone_id,
                tier |-> "B",
                status |-> "CANDIDATE",
                corridor_id |-> None,
                notes |-> IF k - 1 >= req THEN "ALT" ELSE "",
                geometry |-> pts[k],
                satisfied_by |-> NoSite,
                satisfied_corridor_id |-> None]]

\* The Tier-B loop over hex_features, from feature i on: st holds seeded
\* and by_zone.  Entered only when no feature raises.
RECURSIVE seed_tierb_loop(_, _, _, _)
seed_tierb_loop(hex_features, i, seq, st) ==
    IF i > Len(hex_features) THEN st
    ELSE LET hf == hex_features[i]
             req == IntOr0(hf.tierB_sites_required)
             alt == IntOr0(hf.tierB_alternate_required)
             z == Get(st.by_zone, hf.zone_id,
                      [tierB_sites_required |-> 0,
                       tierB_alternate_required |-> 0, total |-> 0])
             new == seed_tierb_feature(hf, seq)
         IN seed_tierb_loop(hex_features, i + 1, seq + Len(new),
              [seeded |-> st.seeded \o new,
               by_zone |-> Put(st.by_zone, hf.zone_id,
                  [tierB_sites_required |-> z.tierB_sites_required + req,
                   tierB_alternate_required |->
                       z.tierB_alternate_required + alt,
                   total |-> z.total + req + alt])])

\* main of seed_tierb_sites.py on the two files it loads: what it writes,
\* or that it raised before writing anything.
seed_tierb(hex_features, existing_features) ==
    IF \/ hex_features = <<>>
       \/ \E i \in DOMAIN hex_features :
              seed_tierb_feature_raises(hex_features[i])
    THEN [ok |-> FALSE]
    ELSE LET kept_features ==
                 IF REPLACE_SITES_FILE THEN <<>> ELSE existing_features
             seq == IF kept_features # <<>>
                    THEN next_site_seq(kept_features) ELSE 1
             st == seed_tierb_loop(hex_features, 1, seq,
                       [seeded |-> <<>>, by_zone |-> EmptyDict])
         IN [ok |-> TRUE,
             features |-> kept_features \o st.seeded,
             by_zone |-> st.by_zone]

(***************************************************************************)
(* seed_tiera_from_corridors.py                                            *)
(*                                                                         *)
(* A corridor feature is the record                                        *)
(*   [corridor_id, tierA_target_sites_min, tierA_target_sites_max,         *)
(*    geometry]                                                            *)
(* A computed point is <<lon_num, lat_num, den>>, den > 0.                 *)
(***************************************************************************)
\* _point_in_ring: even-odd ray casting.  Edge i of the ring is crossed
\* when (y1 > y) != (y2 > y) and x < xinters, with
\*   xinters = (x2 - x1) * (y - y1) / ((y2 - y1) + 1e-12) + x1.
\* With N = (x2 - x1) * (y - y1) and D = y2 - y1 (not 0 on a crossed edge)
\* the 1e-12 moves N / D away from 0 when D < 0 and towards 0 when D > 0,
\* so x < xinters holds iff x - x1 < N / D, or x - x1 = N / D and N < 0.
point_in_ring(point, ring) ==
    LET d == point[3]
        crossed(i) ==
            LET x1 == ring[i][1]
                y1 == ring[i][2]
                x2 == ring[i + 1][1]
                y2 == ring[i + 1][2]
                D == y2 - y1
                N == (x2 - x1) * (point[2] - y1 * d)
                L == (point[1] - x1 * d) * D
            IN /\ (y1 * d > point[2]) # (y2 * d > point[2])
               /\ \/ (D > 0 /\ L < N)
                  \/ (D < 0 /\ L > N)
                  \/ (L = N /\ N < 0)
    IN Cardinality({i \in 1..(Len(ring) - 1) : crossed(i)}) % 2 = 1

\* _point_in_polygon: inside the outer ring, holes ignored.
point_in_polygon(point, polygon_coords) ==
    point_in_ring(point, polygon_coords[1])

\* _segment_len_mi of a segment of constant latitude, where it is
\* |dlon| * 69 * cos(lat): in units of 69 * cos(lat) miles.  Every corridor
\* of the model runs along one latitude, so every length is in one unit.
segment_len_mi(a, b) == Abs(b[1] - a[1])

\* _line_length_mi
RECURSIVE line_length_mi(_)
line_length_mi(coords) ==
    IF Len(coords) < 2 THEN 0
    ELSE segment_len_mi(coords[1], coords[2]) + line_length_mi(Tail(coords))

\* _interpolate_on_segment at t = t_num / t_den.
interpolate_on_segment(a, b, t_num, t_den) ==
    <<a[1] * t_den + (b[1] - a[1]) * t_num,
      a[2] * t_den + (b[2] - a[2]) * t_num,
      t_den>>

\* _point_at_distance, from segment i on with `walked` behind it; the
\* distance is dist_num / dist_den.
RECURSIVE point_at_distance_from(_, _, _, _, _)
point_at_distance_from(coords, i, walked, dist_num, dist_den) ==
    IF i > Len(coords) - 1
    THEN <<coords[Len(coords)][1], coords[Len(coords)][2], 1>>
    ELSE LET a == coords[i]
             b == coords[i + 1]
             seg == segment_len_mi(a, b)
         IN IF (walked + seg) * dist_den >= dist_num
            THEN IF seg = 0
                 THEN interpolate_on_segment(a, b, 0, 1)
                 ELSE interpolate_on_segment(a, b,
                          dist_num - walked * dist_den, seg * dist_den)
            ELSE point_at_distance_from(coords, i + 1, walked + seg,
                                        dist_num, dist_den)

point_at_distance(coords, dist_num, dist_den) ==
    point_at_distance_from(coords, 1, 0, dist_num, dist_den)

\* A sampler that is not the code's: fractions i/n, so that the last point
\* is the end of the line.
sample_points_with_endpoint(coords, n) ==
    IF n <= 0 THEN <<>>
    ELSE LET total_len == line_length_mi(coords)
         IN IF total_len <= 0
            THEN [i \in 1..n |-> <<coords[1][1], coords[1][2], 1>>]
            ELSE [i \in 1..n |-> point_at_distance(coords, total_len * i, n)]

\* A sampler that is not the code's: one point for a line of no length,
\* whatever n.
sample_points_degenerate_once(coords, n) ==
    IF n <= 0 THEN <<>>
    ELSE LET total_len == line_length_mi(coords)
         IN IF total_len <= 0
            THEN <<<<coords[1][1], coords[1][2], 1>>>>
            ELSE [i \in 1..n |->
                     point_at_distance(coords, total_len * i, n + 1)]

\* _sample_points_along_line
sample_points_along_line(coords, n) ==
    IF n <= 0 THEN <<>>
    ELSE IF n = 1
    THEN <<point_at_distance(coords, line_length_mi(coords), 2)>>
    ELSE LET total_len == line_length_mi(coords)
         IN IF total_len <= 0
            THEN [i \in 1..n |-> <<coords[1][1], coords[1][2], 1>>]
            ELSE [i \in 1..n |->
                     point_at_distance(coords, total_len * i, n + 1)]

\* _build_hex_index: (cell_id, zone_id, polygon_coords) of every Polygon
\* feature that has a cell_id and a zone_id, in input order.
RECURSIVE build_hex_index(_)
build_hex_index(hex_features) ==
    IF hex_features = <<>> THEN <<>>
    ELSE LET f == Head(hex_features)
             rest == build_hex_index(Tail(hex_features))
         IN IF \/ f.geometry.type # "Polygon"
               \/ hex_cell_id(f) = None
               \/ f.zone_id = None
            THEN rest
            ELSE << <<hex_cell_id(f), f.zone_id, f.geometry.coordinates>> >>
                   \o rest

\* _find_hex_for_point: the position in hex_index of the first entry whose
\* polygon contains the point, 0 for None.
find_hex_for_point(pt, hex_index) ==
    LET matches == {k \in DOMAIN hex_index :
                        point_in_polygon(pt, hex_index[k][3])}
    IN IF matches = {} THEN 0
       ELSE CHOOSE k \in matches : \A j \in matches : k <= j

\* Whether the corridor loop raises SystemExit on one corridor.
seed_tiera_corridor_raises(c) ==
    \/ c.geometry.type # "LineString"
    \/ c.corridor_id = None

\* An inner loop that is not the code's: a point in no hex is skipped but
\* takes a number.
RECURSIVE seed_tiera_points_numbers_dropped(_, _, _, _, _, _)
seed_tiera_points_numbers_dropped(c, pts, required, hex_index, i, st) ==
    IF i > Len(pts) THEN st
    ELSE LET match == find_hex_for_point(pts[i], hex_index)
         IN IF match = 0
            THEN seed_tiera_points_numbers_dropped(c, pts, required,
                   hex_index, i + 1,
                   [seq |-> st.seq + 1, seeded |-> st.seeded])
            ELSE seed_tiera_points_numbers_dropped(c, pts, required,
                   hex_index, i + 1,
                   [seq |-> st.seq + 1,
                    seeded |-> Append(st.seeded,
                       [site_id |-> <<"S_A", st.seq>>,
                        cell_id |-> hex_index[match][1],
                        zone_id |-> hex_index[match][2],
                        tier |-> "A",
                        status |-> "CANDIDATE",
                        corridor_id |-> c.corridor_id,
                        notes |-> IF i - 1 >= required THEN "ALT" ELSE "",
                        geometry |-> pts[i],
                        satisfied_by |-> NoSite,
                        satisfied_corridor_id |-> None])])

\* The inner loop over the sampled points of one corridor, from point i on:
\* a point in no hex is skipped and takes no number.
RECURSIVE seed_tiera_points(_, _, _, _, _, _)
seed_tiera_points(c, pts, required, hex_index, i, st) ==
    IF i > Len(pts) THEN st
    ELSE LET match == find_hex_for_point(pts[i], hex_index)
         IN IF match = 0
            THEN seed_tiera_points(c, pts, required, hex_index, i + 1, st)
            ELSE seed_tiera_points(c, pts, required, hex_index, i + 1,
                   [seq |-> st.seq + 1,
                    seeded |-> Append(st.seeded,
                       [site_id |-> <<"S_A", st.seq>>,
                        cell_id |-> hex_index[match][1],
                        zone_id |-> hex_index[match][2],
                        tier |-> "A",
                        status |-> "CANDIDATE",
                        corridor_id |-> c.corridor_id,
                        notes |-> IF i - 1 >= required THEN "ALT" ELSE "",
                        geometry |-> pts[i],
                        satisfied_by |-> NoSite,
                        satisfied_corridor_id |-> None])])

\* The corridor loop, from corridor i on: st holds seq, seeded and rollup.
\* Entered only when no corridor raises.
RECURSIVE seed_tiera_loop(_, _, _, _)
seed_tiera_loop(corridor_features, hex_index, i, st) ==
    IF i > Len(corridor_features) THEN st
    ELSE LET c == corridor_features[i]
             tmin == c.tierA_target_sites_min
             tmax == c.tierA_target_sites_max
             required == Max(0, tmin)
             alternate == Max(0, tmax - tmin)
             total == required + alternate
             r == Get(st.rollup, c.corridor_id,
                      [required |-> 0, alternate |-> 0, total |-> 0])
             rollup == Put(st.rollup, c.corridor_id,
                          [required |-> r.required + required,
                           alternate |-> r.alternate + alternate,
                           total |-> r.total + total])
             pts == sample_points_along_line(c.geometry.coordinates, total)
             seeded == seed_tiera_points(c, pts, required, hex_index, 1,
                           [seq |-> st.seq, seeded |-> st.seeded])
         IN seed_tiera_loop(corridor_features, hex_index, i + 1,
                [seq |-> seeded.seq, seeded |-> seeded.seeded,
                 rollup |-> rollup])

\* The sites the Tier-A pass keeps: those whose tier is not "A".
RECURSIVE kept_non_tiera(_)
kept_non_tiera(existing) ==
    IF existing = <<>> THEN <<>>
    ELSE IF Head(existing).tier # "A"
    THEN <<Head(existing)>> \o kept_non_tiera(Tail(existing))
    ELSE kept_non_tiera(Tail(existing))

\* main of seed_tiera_from_corridors.py on the three files it loads: what
\* it writes, or that it raised before writing anything.
seed_tiera(corridor_features, hex_features, existing) ==
    IF \/ corridor_features = <<>>
       \/ hex_features = <<>>
       \/ \E i \in DOMAIN corridor_features :
              seed_tiera_corridor_raises(corridor_features[i])
    THEN [ok |-> FALSE]
    ELSE LET st == seed_tiera_loop(corridor_features,
                       build_hex_index(hex_features), 1,
                       [seq |-> 1, seeded |-> <<>>, rollup |-> EmptyDict])
         IN [ok |-> TRUE,
             features |-> kept_non_tiera(existing) \o st.seeded,
             rollup |-> st.rollup]

(***************************************************************************)
(* The input files of the pipeline                                         *)
(***************************************************************************)
\* The number of features in data/hex_cells.geojson.
NumCells == 3

\* The hex features are taken from one row of a honeycomb of NumCells + 1
\* columns: one column of the row has no feature.
NumCols == NumCells + 1

CellIds == <<"H1", "H2", "H3", "H4", "H5", "H6">>

\* The flat-top hexagon of column col of the row, its vertices in the order
\* hex_polygon lists them: columns are 36 apart, odd columns are raised by
\* 12, so that the hexagons of neighbouring columns share an edge.
honeycomb_polygon(col) ==
    LET cx == 36 * col
        cy == 12 * (col % 2)
    IN << << <<cx + 24, cy>>, <<cx + 12, cy + 12>>, <<cx - 12, cy + 12>>,
             <<cx - 24, cy>>, <<cx - 12, cy - 12>>, <<cx + 12, cy - 12>>,
             <<cx + 24, cy>> >> >>

\* The zone a column lies in: Z1 in the west, Z2 east of it, none beyond.
ZoneOfColumn(col) == IF col < 2 THEN "Z1" ELSE IF col = 2 THEN "Z2" ELSE ""

\* The Tier-B requirements of a scored cell, <<required, alternate>>: of
\* class HIGH and of class LOW.
Requirements == {<<1, 0>>, <<2, 1>>}

\* The hex files: NumCells features in distinct columns, west to east, each
\* scored; the last one may have lost its cell_id.
HexFiles ==
    {[k \in 1..NumCells |->
        [cell_id |-> IF k = NumCells /\ lost THEN None ELSE CellIds[k],
         zone_id |-> ZoneOfColumn(col[k]),
         geometry |-> [type |-> "Polygon",
                       coordinates |-> honeycomb_polygon(col[k])],
         tierB_sites_required |-> <<req[k][1]>>,
         tierB_alternate_required |-> <<req[k][2]>>]] :
      col \in {c \in [1..NumCells -> 0..(NumCols - 1)] :
                  \A i, j \in 1..NumCells : i < j => c[i] < c[j]},
      req \in [1..NumCells -> Requirements],
      lost \in BOOLEAN}

\* A corridor along latitude 6, which crosses every hexagon of the row.
Corridor(id, tmin, tmax, lons) ==
    [corridor_id |-> id,
     tierA_target_sites_min |-> tmin,
     tierA_target_sites_max |-> tmax,
     geometry |-> [type |-> "LineString",
                   coordinates |-> [k \in DOMAIN lons |-> <<lons[k], 6>>]]]

\* The corridor files.  The first puts one site in column 0; the second a
\* required and an alternate site in column 1 and has a corridor without
\* target; the third puts sites in columns 0, 2 and 4 and one on the edge
\* of columns 1 and 2.
CorridorFiles ==
    {<<Corridor("C1", 1, 1, <<-36, 36>>)>>,
     <<Corridor("C1", 1, 2, <<0, 72>>), Corridor("C2", 0, 0, <<0, 72>>)>>,
     <<Corridor("C1", 1, 3, <<-72, 216>>),
       Corridor("C2", 1, 1, <<108, 36, 72>>)>>}

(***************************************************************************)
(* The pipeline: the three passes over data/sites.geojson                  *)
(***************************************************************************)
TessIdle == [pc |-> "idle"]

CalcIdle == [pc |-> "idle"]

Init ==
    /\ hex_cells \in HexFiles
    /\ corridors \in CorridorFiles
    /\ sites = <<>>
    /\ zone_rollup = EmptyDict
    /\ tiera_targets = EmptyDict
    /\ tierb_requirements = EmptyDict
    /\ neighbor_map = EmptyDict
    /\ satisfied_required = 0
    /\ sites_before = <<>>
    /\ rollup_before = EmptyDict
    /\ last_pass = "none"
    /\ prev_pass = "none"
    /\ pass_result = "ok"
    /\ tess = TessIdle
    /\ zones = <<>>
    /\ calc = CalcIdle

\* What every pass records of the run.
Ran(pass, ok) ==
    /\ sites_before' = sites
    /\ rollup_before' = zone_rollup
    /\ prev_pass' = last_pass
    /\ last_pass' = pass
    /\ pass_result' = IF ok THEN "ok" ELSE "abort"

\* python tools/seed_tiera_from_corridors.py
SeedTierA ==
    LET r == seed_tiera(corridors, hex_cells, sites) IN
    /\ sites' = IF r.ok THEN r.features ELSE sites
    /\ tiera_targets' = IF r.ok THEN r.rollup ELSE tiera_targets
    /\ Ran("seed_tiera", r.ok)
    /\ UNCHANGED <<hex_cells, corridors, zone_rollup, tierb_requirements,
                   neighbor_map, satisfied_required, tess, zones, calc>>

\* python tools/seed_tierb_sites.py
SeedTierB ==
    LET r == seed_tierb(hex_cells, sites) IN
    /\ sites' = IF r.ok THEN r.features ELSE sites
    /\ tierb_requirements' = IF r.ok THEN r.by_zone ELSE tierb_requirements
    /\ Ran("seed_tierb", r.ok)
    /\ UNCHANGED <<hex_cells, corridors, zone_rollup, tiera_targets,
                   neighbor_map, satisfied_required, tess, zones, calc>>

\* python tools/apply_tiera_coverage.py
ApplyTierACoverage ==
    LET r == apply_tiera_coverage(hex_cells, sites) IN
    /\ sites' = IF r.ok THEN r.features ELSE sites
    /\ zone_rollup' = IF r.ok THEN r.zone_stats ELSE zone_rollup
    /\ neighbor_map' = IF r.ok THEN r.neighbor_map ELSE neighbor_map
    /\ satisfied_required' =
           IF r.ok THEN r.satisfied_required ELSE satisfied_required
    /\ Ran("apply_tiera_coverage", r.ok)
    /\ UNCHANGED <<hex_cells, corridors, tiera_targets, tierb_requirements,
                   tess, zones, calc>>

Next == SeedTierA \/ SeedTierB \/ ApplyTierACoverage

Spec == Init /\ [][Next]_vars

(***************************************************************************)
(* The coverage reducer's contract                                         *)
(***************************************************************************)
\* The last pass was a coverage reducer pass that ran to its end.
Reduced == last_pass = "apply_tiera_coverage" /\ pass_result = "ok"

\* The vertices of the rings of the hex features named cell_id.
VerticesOfCell(cell_id) ==
    UNION {Range(hex_cells[k].geometry.coordinates[1]) :
              k \in {k \in DOMAIN hex_cells : hex_cells[k].cell_id = cell_id}}

\* cell lies in the coverage set of the Tier-A site a: it is a's own cell
\* or a cell whose ring shares a vertex with the ring of a's cell.
InCoverageSet(cell, a) ==
    \/ cell = a.cell_id
    \/ VerticesOfCell(cell) \cap VerticesOfCell(a.cell_id) # {}

\* The positions of the Tier-A sites whose coverage set holds the cell of
\* site i, as the pass read the sites.
CoveringTierA(i) ==
    {k \in DOMAIN sites_before :
        /\ sites_before[k].tier = "A"
        /\ InCoverageSet(sites_before[i].cell_id, sites_before[k])}

\* Site i was a Tier-B CANDIDATE when the pass read it.
WasTierBCandidate(i) ==
    sites_before[i].tier = "B" /\ sites_before[i].status = "CANDIDATE"

\* C1, as claimed: after one reducer pass every Tier-B site, whatever its
\* notes, that was CANDIDATE and whose cell lies in the coverage set of some
\* Tier-A site is SATISFIED, and every Tier-B CANDIDATE in no coverage set is
\* still CANDIDATE.
C1_AnyNotesSatisfied ==
    Reduced =>
        \A i \in DOMAIN sites_before :
            WasTierBCandidate(i) =>
                sites[i].status =
                    IF CoveringTierA(i) # {} THEN "SATISFIED" ELSE "CANDIDATE"

\* C1, amended: after one reducer pass every Tier-B site not flagged ALT
\* that was CANDIDATE and whose cell lies in the coverage set of some Tier-A
\* site is SATISFIED; every Tier-B CANDIDATE that is flagged ALT or lies in
\* no coverage set is still CANDIDATE.
C1_RequiredSatisfied ==
    Reduced =>
        \A i \in DOMAIN sites_before :
            WasTierBCandidate(i) =>
                sites[i].status =
                    IF sites_before[i].notes # "ALT" /\ CoveringTierA(i) # {}
                    THEN "SATISFIED" ELSE "CANDIDATE"

\* C1's case: a pass has satisfied a covered candidate, left a candidate in
\* no coverage set alone, and left a covered ALT candidate alone.
C1_Witness ==
    /\ Reduced
    /\ \E i, j, k \in DOMAIN sites_before :
          /\ WasTierBCandidate(i) /\ CoveringTierA(i) # {}
          /\ sites[i].status = "SATISFIED"
          /\ WasTierBCandidate(j) /\ CoveringTierA(j) = {}
          /\ sites_before[j].notes # "ALT"
          /\ WasTierBCandidate(k) /\ CoveringTierA(k) # {}
          /\ sites_before[k].notes = "ALT"

\* C2: over any sequence of passes, a site_id changes status only from
\* CANDIDATE to SATISFIED and only in a reducer pass; a SATISFIED site_id
\* never shows up as CANDIDATE again.
C2_StatusOneWay ==
    [][\A i \in DOMAIN sites : \A j \in DOMAIN sites' :
          (sites[i].site_id = sites'[j].site_id
              /\ sites[i].status # sites'[j].status)
          => /\ sites[i].status = "CANDIDATE"
             /\ sites'[j].status = "SATISFIED"
             /\ last_pass' = "apply_tiera_coverage"]_vars

\* C2's case: a Tier-B seeding pass run after a reducer pass that had
\* satisfied a site, the site_id of that site in the list it wrote.
C2_Witness ==
    /\ last_pass = "seed_tierb" /\ pass_result = "ok"
    /\ \E i \in DOMAIN sites_before : \E j \in DOMAIN sites :
          /\ sites_before[i].status = "SATISFIED"
          /\ sites[j].site_id = sites_before[i].site_id

\* C3: a reducer pass run right after a reducer pass changes no site, counts
\* no candidate as satisfied, and writes the same rollup rows.
C3_SecondPassChangesNothing ==
    (Reduced /\ prev_pass = "apply_tiera_coverage") =>
        /\ sites = sites_before
        /\ satisfied_required = 0
        /\ zone_rollup = rollup_before

\* C3's case: two reducer passes in a row over sites of which some are
\* SATISFIED and some Tier-B sites are still CANDIDATE.
C3_Witness ==
    /\ Reduced /\ prev_pass = "apply_tiera_coverage"
    /\ \E i, j \in DOMAIN sites :
          /\ sites[i].status = "SATISFIED"
          /\ sites[j].tier = "B" /\ sites[j].notes # "ALT"
          /\ sites[j].status = "CANDIDATE"

\* The least element of a non-empty set of positions.
First(S) == CHOOSE k \in S : \A j \in S : k <= j

\* C4: a candidate the pass satisfied whose cell lies in the coverage sets
\* of two or more Tier-A sites carries the site_id and the corridor_id of
\* the first of them in input order.
C4_FirstWriterWins ==
    Reduced =>
        \A i \in DOMAIN sites_before :
            (/\ WasTierBCandidate(i)
             /\ sites[i].status = "SATISFIED"
             /\ Cardinality(CoveringTierA(i)) >= 2)
            => /\ sites[i].satisfied_by =
                      sites_before[First(CoveringTierA(i))].site_id
               /\ sites[i].satisfied_corridor_id =
                      sites_before[First(CoveringTierA(i))].corridor_id

\* C4's case: the pass satisfied a candidate covered by two Tier-A sites of
\* different corridors.
C4_Witness ==
    /\ Reduced
    /\ \E i \in DOMAIN sites_before :
          /\ WasTierBCandidate(i)
          /\ sites[i].status = "SATISFIED"
          /\ \E a, b \in CoveringTierA(i) :
                sites_before[a].corridor_id # sites_before[b].corridor_id

\* The number of sites of tier t and zone z that satisfy P.
CountSites(t, z, P(_)) ==
    Cardinality({i \in DOMAIN sites :
                    sites[i].tier = t /\ sites[i].zone_id = z /\ P(sites[i])})

IsRequired(site) == site.notes # "ALT"

IsAlt(site) == site.notes = "ALT"

IsRequiredCandidate(site) == site.notes # "ALT" /\ site.status = "CANDIDATE"

AnySite(site) == TRUE

\* C5: the rollup of a reducer pass has one row for every zone_id that a
\* Tier-A or Tier-B site carries, and the row counts the sites of that
\* zone_id: the non-ALT Tier-B sites, those of them still CANDIDATE, the
\* ALT Tier-B sites, and the Tier-A sites.
C5_RollupCounts ==
    Reduced =>
        /\ DOMAIN zone_rollup =
               {sites[i].zone_id : i \in DOMAIN sites} \ {""}
        /\ \A z \in DOMAIN zone_rollup :
              /\ zone_rollup[z].tierB_required_before =
                     CountSites("B", z, IsRequired)
              /\ zone_rollup[z].tierB_required_after =
                     CountSites("B", z, IsRequiredCandidate)
              /\ zone_rollup[z].tierB_alt_total = CountSites("B", z, IsAlt)
              /\ zone_rollup[z].tierA_sites = CountSites("A", z, AnySite)

\* C5's case: the pass satisfied a site of one zone from a Tier-A site of
\* another zone, and the rollup has rows for both zones and an ALT site.
C5_Witness ==
    /\ Reduced
    /\ \E i, a \in DOMAIN sites :
          /\ sites[i].satisfied_by = sites[a].site_id
          /\ sites[i].zone_id # sites[a].zone_id
          /\ {sites[i].zone_id, sites[a].zone_id} \subseteq DOMAIN zone_rollup
    /\ \E z \in DOMAIN zone_rollup : zone_rollup[z].tierB_alt_total > 0

\* The sum of f over the set S of arguments.
RECURSIVE Sum(_, _)
Sum(f, S) ==
    IF S = {} THEN 0
    ELSE LET x == CHOOSE x \in S : TRUE IN f[x] + Sum(f, S \ {x})

\* The sites the pass set to SATISFIED.
SatisfiedByPass ==
    {i \in DOMAIN sites_before :
        sites_before[i].status = "CANDIDATE" /\ sites[i].status = "SATISFIED"}

\* Every Tier-B site the pass read was a non-ALT CANDIDATE with a zone_id.
AllRequiredCandidates ==
    \A i \in DOMAIN sites_before :
        sites_before[i].tier = "B" =>
            /\ sites_before[i].notes # "ALT"
            /\ sites_before[i].status = "CANDIDATE"
            /\ sites_before[i].zone_id # ""

\* C6: from sites whose Tier-B sites are all non-ALT CANDIDATEs with a
\* zone_id, the rollup's required-before minus required-after, summed over
\* the zones, is the number of sites the pass set to SATISFIED.
C6_RollupDecrease ==
    (Reduced /\ AllRequiredCandidates) =>
        Sum([z \in DOMAIN zone_rollup |->
                zone_rollup[z].tierB_required_before
                  - zone_rollup[z].tierB_required_after],
            DOMAIN zone_rollup)
          = Cardinality(SatisfiedByPass)

\* C6's case, the end-to-end scenario: one Tier-A site, three candidates,
\* two of them in its coverage set and satisfied, the third left CANDIDATE.
C6_Witness ==
    /\ Reduced /\ AllRequiredCandidates
    /\ Cardinality({i \in DOMAIN sites : sites[i].tier = "A"}) = 1
    /\ Cardinality({i \in DOMAIN sites : sites[i].tier = "B"}) = 3
    /\ Cardinality(SatisfiedByPass) = 2
    /\ \E i \in DOMAIN sites :
          sites[i].tier = "B" /\ sites[i].status = "CANDIDATE"

\* A site without the three fields the reducer writes.
Frame(site) ==
    [site EXCEPT !.status = "", !.satisfied_by = NoSite,
                 !.satisfied_corridor_id = None]

\* C7: a reducer pass keeps the number and order of the sites, every field
\* of every site but status, satisfied_by and satisfied_corridor_id, and
\* every site that is not a Tier-B site whole.
C7_ReducerFrame ==
    last_pass = "apply_tiera_coverage" =>
        /\ Len(sites) = Len(sites_before)
        /\ \A i \in DOMAIN sites_before :
              /\ Frame(sites[i]) = Frame(sites_before[i])
              /\ sites_before[i].tier # "B" => sites[i] = sites_before[i]

\* C7's case: a pass over Tier-A and Tier-B sites that satisfied some.
C7_Witness ==
    /\ Reduced
    /\ SatisfiedByPass # {}
    /\ \E i \in DOMAIN sites : sites[i].tier = "A"

(***************************************************************************)
(* build_neighbor_map on its own, over any list of hex features            *)
(***************************************************************************)
\* The number of features in the list.
MaxFeatures == 3

\* The vertex coordinates the rings are drawn from.
Vertices == {<<0, 0>>, <<1, 0>>, <<2, 0>>, <<3, 0>>}

\* The closed ring through a and b.
Ring(a, b) == <<a, b, a>>

\* The geometries of the features: four polygons of one ring along a line
\* of four vertices, a polygon with a second ring, and a multipolygon.
Geometries ==
    {[type |-> "Polygon", coordinates |-> <<Ring(<<0, 0>>, <<1, 0>>)>>],
     [type |-> "Polygon", coordinates |-> <<Ring(<<1, 0>>, <<2, 0>>)>>],
     [type |-> "Polygon", coordinates |-> <<Ring(<<2, 0>>, <<3, 0>>)>>],
     [type |-> "Polygon", coordinates |-> <<Ring(<<3, 0>>, <<3, 0>>)>>],
     [type |-> "Polygon",
      coordinates |-> <<Ring(<<0, 0>>, <<0, 0>>), Ring(<<2, 0>>, <<2, 0>>)>>],
     [type |-> "MultiPolygon",
      coordinates |-> << <<Ring(<<0, 0>>, <<0, 0>>)>>,
                         <<Ring(<<1, 0>>, <<1, 0>>),
                           Ring(<<3, 0>>, <<3, 0>>)>> >>]}

\* The lists of hex features: every feature has its own cell_id or none.
FeatureLists ==
    {[k \in 1..MaxFeatures |->
        [cell_id |-> IF has_id[k] THEN CellIds[k] ELSE None,
         zone_id |-> "",
         geometry |-> geom[k],
         tierB_sites_required |-> <<>>,
         tierB_alternate_required |-> <<>>]] :
      geom \in [1..MaxFeatures -> Geometries],
      has_id \in [1..MaxFeatures -> BOOLEAN]}

\* No pass has touched the files of the pipeline.
PipelineIdle ==
    /\ sites = <<>>
    /\ zone_rollup = EmptyDict
    /\ tiera_targets = EmptyDict
    /\ tierb_requirements = EmptyDict
    /\ satisfied_required = 0
    /\ sites_before = <<>>
    /\ rollup_before = EmptyDict
    /\ prev_pass = "none"
    /\ pass_result = "ok"
    /\ zones = <<>>
    /\ calc = CalcIdle

PipelineVars ==
    <<sites, zone_rollup, tiera_targets, tierb_requirements,
      satisfied_required, sites_before, rollup_before, prev_pass,
      pass_result, zones, calc>>

InitNeighbors ==
    /\ hex_cells \in FeatureLists
    /\ corridors = <<>>
    /\ neighbor_map = EmptyDict
    /\ last_pass = "none"
    /\ tess = TessIdle
    /\ PipelineIdle

\* neighbor_map = build_neighbor_map(hex_cells["features"])
BuildNeighborMap ==
    /\ neighbor_map' = build_neighbor_map(hex_cells)
    /\ last_pass' = "build_neighbor_map"
    /\ UNCHANGED <<hex_cells, corridors, tess, PipelineVars>>

NextNeighbors == BuildNeighborMap

SpecNeighbors == InitNeighbors /\ [][NextNeighbors]_vars

\* The map has been built.
Built == last_pass = "build_neighbor_map"

\* Some ring of the feature holds the coordinate v.
HasVertex(f, v) ==
    LET c == f.geometry.coordinates IN
    IF f.geometry.type = "Polygon"
    THEN \E r \in DOMAIN c : \E k \in DOMAIN c[r] : c[r][k] = v
    ELSE \E q \in DOMAIN c : \E r \in DOMAIN c[q] :
             \E k \in DOMAIN c[q][r] : c[q][r][k] = v

\* The feature that carries the cell_id.
FeatureOf(cell_id) ==
    hex_cells[CHOOSE k \in DOMAIN hex_cells : hex_cells[k].cell_id = cell_id]

\* The cell_ids of the features that have one.
CellsWithId ==
    {hex_cells[k].cell_id : k \in DOMAIN hex_cells} \ {None, ""}

\* C8: in the neighbor map, if B is in A's neighbor set then A is in B's.
C8_AdjacencySymmetry ==
    Built =>
        \A A \in DOMAIN neighbor_map : \A B \in neighbor_map[A] :
            B \in DOMAIN neighbor_map /\ A \in neighbor_map[B]

\* C8's case: the map of a list in which two cells are neighbours and a
\* third cell is a neighbour of neither.
C8_Witness ==
    /\ Built
    /\ \E A, B, C \in DOMAIN neighbor_map :
          /\ A # B /\ B \in neighbor_map[A]
          /\ C \notin neighbor_map[A] /\ C \notin neighbor_map[B]

\* C9: the map has an entry for every cell with a cell_id, and the entry
\* is the set of the cells whose rings hold a coordinate equal to one of
\* the cell's own vertices; the cell itself is one of them.
C9_NeighborsShareVertex ==
    Built =>
        /\ DOMAIN neighbor_map = CellsWithId
        /\ \A A \in CellsWithId :
              /\ neighbor_map[A] =
                     {B \in CellsWithId :
                         \E v \in Vertices : /\ HasVertex(FeatureOf(A), v)
                                             /\ HasVertex(FeatureOf(B), v)}
              /\ A \in neighbor_map[A]

\* C9's case: a cell whose only shared vertex with a neighbour lies on a
\* ring that is not the first ring of the first polygon, next to a feature
\* without cell_id that shares a vertex with it.
C9_Witness ==
    /\ Built
    /\ \E A, B \in CellsWithId :
          /\ A # B /\ B \in neighbor_map[A]
          /\ FeatureOf(A).geometry.type = "MultiPolygon"
          /\ ~ HasVertex(FeatureOf(B), <<0, 0>>)
    /\ \E k \in DOMAIN hex_cells : hex_cells[k].cell_id = None

(***************************************************************************)
(* make_hex_cells.py: the hex tessellator                                  *)
(*                                                                         *)
(* Units.  A latitude is counted in units of r_lat * sqrt(3) / 2, the      *)
(* half height of a hexagon, which is the same in every row: lat_step is   *)
(* 2.  A longitude is counted in units in which every r_lon is a multiple  *)
(* of 4, so that r_lon / 2, 0.75 * r_lon and 1.5 * r_lon are integers.     *)
(* r_lon depends on the latitude of the row through cos; the model takes   *)
(* any value of RLonValues for each row.                                   *)
(***************************************************************************)
\* BBOX in the units of the model: lon_min = lat_min = 0.
TessLonMax == 12

TessLatMax == 4

RLonValues == {4, 8, 12}

\* f"H_{cell_idx:06d}"
TessCellIds ==
    <<"H_000001", "H_000002", "H_000003", "H_000004", "H_000005",
      "H_000006", "H_000007", "H_000008", "H_000009", "H_000010",
      "H_000011", "H_000012", "H_000013", "H_000014", "H_000015",
      "H_000016", "H_000017", "H_000018", "H_000019", "H_000020">>

\* miles_to_deg_lon(HEX_RADIUS_MI, lat)
miles_to_deg_lon(lat) == tess.r_lon[lat]

\* hex_polygon(center_lon, center_lat, HEX_RADIUS_MI)
hex_polygon(center_lon, center_lat) ==
    LET r_lon == miles_to_deg_lon(center_lat)
    IN << << <<center_lon + r_lon, center_lat>>,
             <<center_lon + r_lon \div 2, center_lat + 1>>,
             <<center_lon - r_lon \div 2, center_lat + 1>>,
             <<center_lon - r_lon, center_lat>>,
             <<center_lon - r_lon \div 2, center_lat - 1>>,
             <<center_lon + r_lon \div 2, center_lat - 1>>,
             <<center_lon + r_lon, center_lat>> >> >>

\* A feature that is not the code's: the flags and weights start as None.
tess_feature_blank(cell_idx, lon, lat) ==
    [cell_id |-> TessCellIds[cell_idx],
     zone_id |-> "",
     geometry |-> [type |-> "Polygon", coordinates |-> hex_polygon(lon, lat)],
     cell_radius_mi |-> <<35>>,
     elev_adv_avail |-> <<>>,
     tall_struct_avail |-> <<>>,
     clutter_high |-> <<>>,
     backbone_los_likely |-> <<>>,
     pop_weight |-> <<>>,
     critical_weight |-> <<>>,
     confidence_score |-> <<>>,
     confidence_class |-> None,
     tierB_sites_required |-> <<>>,
     tierB_alternate_required |-> <<>>,
     tierC_demand_class |-> None,
     priority_score |-> <<>>,
     notes |-> ""]

\* The feature main appends for the cell at (lon, lat).
tess_feature(cell_idx, lon, lat) ==
    [cell_id |-> TessCellIds[cell_idx],
     zone_id |-> "",
     geometry |-> [type |-> "Polygon", coordinates |-> hex_polygon(lon, lat)],
     cell_radius_mi |-> <<35>>,
     elev_adv_avail |-> <<0>>,
     tall_struct_avail |-> <<0>>,
     clutter_high |-> <<0>>,
     backbone_los_likely |-> <<0>>,
     pop_weight |-> <<0>>,
     critical_weight |-> <<0>>,
     confidence_score |-> <<>>,
     confidence_class |-> None,
     tierB_sites_required |-> <<>>,
     tierB_alternate_required |-> <<>>,
     tierC_demand_class |-> None,
     priority_score |-> <<>>,
     notes |-> ""]

InitTess ==
    /\ \E r \in [{l \in 0..TessLatMax : l % 2 = 0} -> RLonValues] :
          tess = [pc |-> "row", lat |-> 0, row |-> 0, lon |-> 0,
                  cell_idx |-> 0, features |-> <<>>, r_lon |-> r]
    /\ hex_cells = <<>>
    /\ corridors = <<>>
    /\ neighbor_map = EmptyDict
    /\ last_pass = "none"
    /\ PipelineIdle

\* The outer loop is entered: lon = lon_min + (0.75 * r_lon if row % 2 else 0)
TessStartRow ==
    /\ tess.pc = "row"
    /\ tess.lat <= TessLatMax
    /\ tess' = [tess EXCEPT
                  !.pc = "cell",
                  !.lon = IF tess.row % 2 = 1
                          THEN 3 * (miles_to_deg_lon(tess.lat) \div 4) ELSE 0]
    /\ UNCHANGED <<hex_cells, corridors, neighbor_map, last_pass,
                   PipelineVars>>

\* The body of the inner loop: one cell, then lon += lon_step
TessEmitCell ==
    /\ tess.pc = "cell"
    /\ tess.lon <= TessLonMax
    /\ tess.cell_idx < Len(TessCellIds)
    /\ tess' = [tess EXCEPT
                  !.cell_idx = tess.cell_idx + 1,
                  !.features = Append(tess.features,
                      tess_feature(tess.cell_idx + 1, tess.lon, tess.lat)),
                  !.lon = tess.lon + 6 * (miles_to_deg_lon(tess.lat) \div 4)]
    /\ UNCHANGED <<hex_cells, corridors, neighbor_map, last_pass,
                   PipelineVars>>

\* The inner loop ends: lat += lat_step; row += 1
TessEndRow ==
    /\ tess.pc = "cell"
    /\ tess.lon > TessLonMax
    /\ tess' = [tess EXCEPT !.pc = "row", !.lat = tess.lat + 2,
                              !.row = tess.row + 1]
    /\ UNCHANGED <<hex_cells, corridors, neighbor_map, last_pass,
                   PipelineVars>>

\* The outer loop ends: the features are written to data/hex_cells.geojson
TessWrite ==
    /\ tess.pc = "row"
    /\ tess.lat > TessLatMax
    /\ tess' = [tess EXCEPT !.pc = "done"]
    /\ hex_cells' = tess.features
    /\ last_pass' = "make_hex_cells"
    /\ UNCHANGED <<corridors, neighbor_map, PipelineVars>>

NextTess == TessStartRow \/ TessEmitCell \/ TessEndRow \/ TessWrite

SpecTess == InitTess /\ [][NextTess]_vars

\* The outer ring of cell i of the written file, its centre and its r_lon.
RingOf(i) == hex_cells[i].geometry.coordinates[1]

CenterLon(i) == (RingOf(i)[1][1] + RingOf(i)[4][1]) \div 2

CenterLat(i) == RingOf(i)[1][2]

RLonOf(i) == (RingOf(i)[1][1] - RingOf(i)[4][1]) \div 2

\* Cells i and j are adjacent in the tiling: consecutive cells of one row,
\* or cells of consecutive rows of which the top edge of the lower one and
\* the bottom edge of the upper one overlap.
TessAdjacent(i, j) ==
    \/ /\ j = i + 1
       /\ CenterLat(i) = CenterLat(j)
    \/ /\ CenterLat(j) = CenterLat(i) + 2
       /\ 2 * Abs(CenterLon(i) - CenterLon(j)) <= RLonOf(i) + RLonOf(j)

\* C10: every two cells of the generated grid that are adjacent in the
\* tiling have a vertex with equal coordinates in both rings, and the
\* neighbor map built from the grid links each to the other.
C10_SharedVertices ==
    tess.pc = "done" =>
        \A i, j \in DOMAIN hex_cells :
            TessAdjacent(i, j) =>
                /\ Range(RingOf(i)) \cap Range(RingOf(j)) # {}
                /\ hex_cells[j].cell_id
                       \in build_neighbor_map(hex_cells)[hex_cells[i].cell_id]

\* C10's case: the tessellator has written a grid with two consecutive
\* cells in one row and two touching cells in consecutive rows.
C10_Witness ==
    /\ tess.pc = "done"
    /\ \E i, j \in DOMAIN hex_cells :
          TessAdjacent(i, j) /\ CenterLat(i) = CenterLat(j)
    /\ \E i, j \in DOMAIN hex_cells :
          TessAdjacent(i, j) /\ CenterLat(j) = CenterLat(i) + 2

(***************************************************************************)
(* assign_zones_to_hexes.py, assign_zones_to_hexes_buffered.py and         *)
(* assign_zones_to_hexes_vertices_first.py: the zone classifiers           *)
(*                                                                         *)
(* A zone feature is the record [zone_id, geometry].  The three files      *)
(* carry the same centroid_of_polygon, point_in_ring, point_in_polygon and *)
(* point_in_geometry; point_in_ring is the function of the same text in    *)
(* seed_tiera_from_corridors.py, modelled above.                           *)
(*                                                                         *)
(* Units.  In this part a coordinate n stands for n / 69 of a degree, so   *)
(* that one unit of latitude is one mile.  A distance is kept as its       *)
(* square in miles, the exact fraction <<num, den>>; infinity is <<1, 0>>. *)
(* cos(radians(lat)) ^ 2 is one fraction calc.cos2 for the whole region.   *)
(***************************************************************************)
\* centroid_of_polygon: the mean of the outer ring without its closing
\* point, as the exact point <<sum of lon, sum of lat, count>>.
centroid_of_polygon(poly_coords) ==
    LET ring == poly_coords[1]
        n == Len(ring) - 1
    IN <<SumCoord(ring, 1, n), SumCoord(ring, 2, n), n>>

\* Whether point_in_geometry raises ValueError.
point_in_geometry_raises(geom) == geom.type \notin {"Polygon", "MultiPolygon"}

\* point_in_geometry
point_in_geometry(point, geom) ==
    IF geom.type = "Polygon" THEN point_in_polygon(point, geom.coordinates)
    ELSE \E k \in DOMAIN geom.coordinates :
             point_in_polygon(point, geom.coordinates[k])

\* hex_vertices: the outer ring without its closing point, as exact points.
hex_vertices(hf) ==
    LET ring == hf.geometry.coordinates[1]
    IN [k \in 1..(Len(ring) - 1) |-> <<ring[k][1], ring[k][2], 1>>]

\* A variant of the strict step that goes on after a zone that contains c:
\* the last such zone is found.
RECURSIVE strict_zone_last(_, _, _)
strict_zone_last(c, zone_geoms, i) ==
    IF i > Len(zone_geoms) THEN [raised |-> FALSE, zid |-> None]
    ELSE LET rest == strict_zone_last(c, zone_geoms, i + 1) IN
         IF ~Truthy(zone_geoms[i].zone_id) THEN rest
         ELSE IF point_in_geometry_raises(zone_geoms[i].geometry)
         THEN [raised |-> TRUE, zid |-> None]
         ELSE IF rest.raised \/ rest.zid # None THEN rest
         ELSE IF point_in_geometry(c, zone_geoms[i].geometry)
         THEN [raised |-> FALSE, zid |-> zone_geoms[i].zone_id]
         ELSE rest

\* The strict step, from zone i on: the first zone with a zone_id whose
\* geometry contains c.  [raised, zid], zid = None when no zone does.
RECURSIVE strict_zone(_, _, _)
strict_zone(c, zone_geoms, i) ==
    IF i > Len(zone_geoms) THEN [raised |-> FALSE, zid |-> None]
    ELSE IF ~Truthy(zone_geoms[i].zone_id)
    THEN strict_zone(c, zone_geoms, i + 1)
    ELSE IF point_in_geometry_raises(zone_geoms[i].geometry)
    THEN [raised |-> TRUE, zid |-> None]
    ELSE IF point_in_geometry(c, zone_geoms[i].geometry)
    THEN [raised |-> FALSE, zid |-> zone_geoms[i].zone_id]
    ELSE strict_zone(c, zone_geoms, i + 1)

\* A variant of the strict classifier that leaves out a cell that has a
\* zone_id already, and clears it.
assign_zone_strict_unassigned_only(hf, zone_geoms) ==
    IF Truthy(hf.zone_id) THEN [raised |-> FALSE, zid |-> None]
    ELSE strict_zone(centroid_of_polygon(hf.geometry.coordinates),
                     zone_geoms, 1)

\* assign_zones_to_hexes.py, the body of the loop over the hex features.
assign_zone_strict(hf, zone_geoms) ==
    strict_zone(centroid_of_polygon(hf.geometry.coordinates), zone_geoms, 1)

\* The zone_ids the data carries, in the order of Python's string
\* comparison.
ZoneIdsSorted ==
    <<"Z_CENTRAL_LOW_RELIEF", "Z_EAST_RIDGE_METRO", "Z_WEST_HIGH_RELIEF">>

\* a < b on two zone_ids.
str_less(a, b) ==
    \E i, j \in DOMAIN ZoneIdsSorted :
        ZoneIdsSorted[i] = a /\ ZoneIdsSorted[j] = b /\ i < j

\* The vote loop, from zone i on: hits maps a zone_id to the number of
\* vertices its geometry contains, when that is not 0.
RECURSIVE vertex_hits(_, _, _, _)
vertex_hits(verts, zone_geoms, i, hits) ==
    IF i > Len(zone_geoms) THEN hits
    ELSE IF ~Truthy(zone_geoms[i].zone_id)
    THEN vertex_hits(verts, zone_geoms, i + 1, hits)
    ELSE LET count == Cardinality({k \in DOMAIN verts :
                          point_in_geometry(verts[k], zone_geoms[i].geometry)})
         IN vertex_hits(verts, zone_geoms, i + 1,
                        IF count # 0
                        THEN Put(hits, zone_geoms[i].zone_id, count)
                        ELSE hits)

\* A variant of the vote that gives a tie to the greatest zone_id.
vote_winner_greatest(hits) ==
    CHOOSE z \in DOMAIN hits :
        \A w \in DOMAIN hits \ {z} :
            \/ hits[z] > hits[w]
            \/ hits[z] = hits[w] /\ str_less(w, z)

\* sorted(hits.items(), key=lambda kv: (-kv[1], kv[0]))[0][0]
vote_winner(hits) ==
    CHOOSE z \in DOMAIN hits :
        \A w \in DOMAIN hits \ {z} :
            \/ hits[z] > hits[w]
            \/ hits[z] = hits[w] /\ str_less(z, w)

\* assign_zones_to_hexes_vertices_first.py, the body of the loop.
assign_zone_vertices_first(hf, zone_geoms) ==
    LET c == centroid_of_polygon(hf.geometry.coordinates)
        verts == hex_vertices(hf)
        strict == strict_zone(c, zone_geoms, 1)
    IN IF strict.raised \/ strict.zid # None THEN strict
       ELSE IF \E i \in DOMAIN zone_geoms :
                  /\ Truthy(zone_geoms[i].zone_id)
                  /\ verts # <<>>
                  /\ point_in_geometry_raises(zone_geoms[i].geometry)
       THEN [raised |-> TRUE, zid |-> None]
       ELSE LET hits == vertex_hits(verts, zone_geoms, 1, EmptyDict)
            IN [raised |-> FALSE,
                zid |-> IF DOMAIN hits # {} THEN vote_winner(hits) ELSE None]

\* COASTAL_BUFFER_MI = 25.0
COASTAL_BUFFER_MI == 25

\* The greatest common divisor of two naturals.
RECURSIVE GCD(_, _)
GCD(a, b) == IF b = 0 THEN a ELSE GCD(b, a % b)

\* The infinite distance, float("inf").
Inf == <<1, 0>>

\* d1 < d2 on two squared distances.
dist_less(d1, d2) == d1[1] * d2[2] < d2[1] * d1[2]

\* deg_to_miles of the offset (dx_num / den, dy_num / den), squared:
\* dx ^ 2 * cos2 + dy ^ 2 in miles, the offset reduced to lowest terms first.
deg_to_miles(dx_num, dy_num, den) ==
    LET g == GCD(GCD(Abs(dx_num), Abs(dy_num)), den)
        x == dx_num \div g
        y == dy_num \div g
        e == den \div g
    IN <<calc.cos2[1] * x * x + calc.cos2[2] * y * y, calc.cos2[2] * e * e>>

\* point_to_segment_distance_miles, squared.  With p = (p[1], p[2]) / d the
\* projection parameter is t = T / (d * ab2), clamped to [0, 1].
point_to_segment_distance_miles(p, a, b) ==
    LET d == p[3]
        abx == b[1] - a[1]
        aby == b[2] - a[2]
        apx == p[1] - a[1] * d
        apy == p[2] - a[2] * d
        ab2 == abx * abx + aby * aby
        T == apx * abx + apy * aby
    IN IF ab2 = 0 THEN deg_to_miles(apx, apy, d)
       ELSE IF T < 0 THEN deg_to_miles(apx, apy, d)
       ELSE IF T > d * ab2
       THEN deg_to_miles(apx - abx * d, apy - aby * d, d)
       ELSE deg_to_miles(apx * ab2 - T * abx, apy * ab2 - T * aby, d * ab2)

\* distance_to_polygon_outer_ring_miles, from segment i on with best so far.
RECURSIVE ring_distance_from(_, _, _, _)
ring_distance_from(point, outer, i, best) ==
    IF i > Len(outer) - 1 THEN best
    ELSE LET d == point_to_segment_distance_miles(point, outer[i], outer[i + 1])
         IN ring_distance_from(point, outer, i + 1,
                               IF dist_less(d, best) THEN d ELSE best)

distance_to_polygon_outer_ring_miles(point, polygon_coords) ==
    ring_distance_from(point, polygon_coords[1], 1, Inf)

\* Whether distance_to_geometry_miles raises ValueError.
distance_to_geometry_raises(geom) ==
    geom.type \notin {"Polygon", "MultiPolygon"}

\* distance_to_geometry_miles: of a MultiPolygon the least over its polygons.
distance_to_geometry_miles(point, geom) ==
    IF geom.type = "Polygon"
    THEN distance_to_polygon_outer_ring_miles(point, geom.coordinates)
    ELSE LET ds == {distance_to_polygon_outer_ring_miles(
                        point, geom.coordinates[k]) :
                            k \in DOMAIN geom.coordinates}
         IN CHOOSE m \in ds : \A o \in ds : ~dist_less(o, m)

\* A variant of the buffered step in which a later zone replaces the best
\* one when it is as near.
RECURSIVE nearest_zone_last(_, _, _, _)
nearest_zone_last(c, zone_geoms, i, best) ==
    IF i > Len(zone_geoms) THEN best
    ELSE IF ~Truthy(zone_geoms[i].zone_id)
    THEN nearest_zone_last(c, zone_geoms, i + 1, best)
    ELSE LET d == distance_to_geometry_miles(c, zone_geoms[i].geometry)
         IN nearest_zone_last(c, zone_geoms, i + 1,
                              IF ~dist_less(best.dist, d)
                              THEN [zid |-> zone_geoms[i].zone_id, dist |-> d]
                              ELSE best)

\* The buffered step, from zone i on: best = [zid, dist] is the nearest
\* zone so far, a later zone replacing it only when strictly nearer.
RECURSIVE nearest_zone(_, _, _, _)
nearest_zone(c, zone_geoms, i, best) ==
    IF i > Len(zone_geoms) THEN best
    ELSE IF ~Truthy(zone_geoms[i].zone_id)
    THEN nearest_zone(c, zone_geoms, i + 1, best)
    ELSE LET d == distance_to_geometry_miles(c, zone_geoms[i].geometry)
         IN nearest_zone(c, zone_geoms, i + 1,
                         IF dist_less(d, best.dist)
                         THEN [zid |-> zone_geoms[i].zone_id, dist |-> d]
                         ELSE best)

\* best_dist <= COASTAL_BUFFER_MI
within_buffer(dist) ==
    dist[1] <= COASTAL_BUFFER_MI * COASTAL_BUFFER_MI * dist[2]

\* assign_zones_to_hexes_buffered.py, the body of the loop.
assign_zone_buffered(hf, zone_geoms) ==
    LET c == centroid_of_polygon(hf.geometry.coordinates)
        strict == strict_zone(c, zone_geoms, 1)
    IN IF strict.raised \/ strict.zid # None THEN strict
       ELSE IF \E i \in DOMAIN zone_geoms :
                  /\ Truthy(zone_geoms[i].zone_id)
                  /\ distance_to_geometry_raises(zone_geoms[i].geometry)
       THEN [raised |-> TRUE, zid |-> None]
       ELSE LET best == nearest_zone(c, zone_geoms, 1,
                                     [zid |-> None, dist |-> Inf])
            IN [raised |-> FALSE,
                zid |-> IF best.zid # None /\ within_buffer(best.dist)
                        THEN best.zid ELSE None]

\* The closed ring of the rectangle with corners (x1, y1) and (x2, y2).
Rect(x1, y1, x2, y2) ==
    << <<x1, y1>>, <<x2, y1>>, <<x2, y2>>, <<x1, y2>>, <<x1, y1>> >>

PolygonOf(ring) == [type |-> "Polygon", coordinates |-> <<ring>>]

\* The zone geometries.  The hexagons of the row have their centroids at
\* (0, 0), (36, 12), (72, 0), (108, 12), ...; the geometries lie around the
\* second one: edges 25 miles and 1 mile west of it, a MultiPolygon with an
\* edge 1 mile east of it, a slanted edge less than a mile away, and a
\* geometry that is no polygon.
ZoneGeometries ==
    {PolygonOf(Rect(-30, -20, 11, 30)),
     PolygonOf(Rect(-30, -20, 35, 30)),
     PolygonOf(<< <<37, 12>>, <<64, 12>>, <<64, 41>>, <<36, 13>>,
                  <<37, 12>> >>),
     [type |-> "MultiPolygon",
      coordinates |-> << <<Rect(-30, -60, -10, -40)>>,
                         <<Rect(37, -20, 130, 30)>> >>],
     [type |-> "Point", coordinates |-> <<36, 12>>]}

\* The number of features in the zone file, at most.
MaxZones == 2

ZoneIds == {"Z_WEST_HIGH_RELIEF", "Z_CENTRAL_LOW_RELIEF", ""}

\* The zone files: up to MaxZones features, no zone_id twice.
ZoneFiles ==
    UNION {{[k \in 1..n |-> [zone_id |-> id[k], geometry |-> g[k]]] :
              id \in {f \in [1..n -> ZoneIds] :
                         \A i, j \in 1..n : i < j => f[i] # f[j]},
              g \in [1..n -> ZoneGeometries]} : n \in 1..MaxZones}

\* cos(radians(lat)) ^ 2 of the region.
Cos2Values == {<<1, 1>>, <<1, 4>>}

\* The hex file the classifiers read: the first NumCells hexagons of the
\* row, every cell with the zone_id prior.
ZoneHexFile(prior) ==
    [k \in 1..NumCells |->
        [cell_id |-> CellIds[k],
         zone_id |-> prior,
         geometry |-> [type |-> "Polygon",
                       coordinates |-> honeycomb_polygon(k - 1)],
         tierB_sites_required |-> <<>>,
         tierB_alternate_required |-> <<>>]]

\* The zone_id of every feature, in file order.
zone_ids(hex_features) ==
    [k \in DOMAIN hex_features |-> hex_features[k].zone_id]

InitZones ==
    /\ zones \in ZoneFiles
    /\ \E prior \in {"", "Z_EAST_RIDGE_METRO"}, cos2 \in Cos2Values :
          /\ hex_cells = ZoneHexFile(prior)
          /\ calc = [pc |-> "zones", cos2 |-> cos2, prior |-> prior,
                     zone_ids_before |-> zone_ids(ZoneHexFile(prior))]
    /\ corridors = <<>>
    /\ sites = <<>>
    /\ zone_rollup = EmptyDict
    /\ tiera_targets = EmptyDict
    /\ tierb_requirements = EmptyDict
    /\ neighbor_map = EmptyDict
    /\ satisfied_required = 0
    /\ sites_before = <<>>
    /\ rollup_before = EmptyDict
    /\ last_pass = "none"
    /\ prev_pass = "none"
    /\ pass_result = "ok"
    /\ tess = TessIdle

\* The end of a classifier's main: the file is rewritten with the zone_id
\* found for every feature, "" where none was found; nothing is written
\* when the loop raised.
ZonesWritten(found) ==
    LET raised == \E k \in DOMAIN found : found[k].raised IN
    /\ hex_cells' =
           IF raised THEN hex_cells
           ELSE [k \in DOMAIN hex_cells |->
                    [hex_cells[k] EXCEPT
                       !.zone_id = IF found[k].zid = None THEN ""
                                   ELSE found[k].zid]]
    /\ calc' = [calc EXCEPT !.zone_ids_before = zone_ids(hex_cells)]
    /\ prev_pass' = last_pass
    /\ pass_result' = IF raised THEN "abort" ELSE "ok"
    /\ UNCHANGED <<corridors, sites, zone_rollup, tiera_targets,
                   tierb_requirements, neighbor_map, satisfied_required,
                   sites_before, rollup_before, tess, zones>>

\* python tools/assign_zones_to_hexes.py
AssignZones ==
    /\ last_pass' = "assign_zones"
    /\ ZonesWritten(
        [k \in DOMAIN hex_cells |-> assign_zone_strict(hex_cells[k], zones)])

\* python tools/assign_zones_to_hexes_buffered.py
AssignZonesBuffered ==
    /\ last_pass' = "assign_zones_buffered"
    /\ ZonesWritten(
        [k \in DOMAIN hex_cells |-> assign_zone_buffered(hex_cells[k], zones)])

\* python tools/assign_zones_to_hexes_vertices_first.py
AssignZonesVerticesFirst ==
    /\ last_pass' = "assign_zones_vertices_first"
    /\ ZonesWritten(
        [k \in DOMAIN hex_cells |->
            assign_zone_vertices_first(hex_cells[k], zones)])

NextZones == AssignZones \/ AssignZonesBuffered \/ AssignZonesVerticesFirst

SpecZones == InitZones /\ [][NextZones]_vars

(***************************************************************************)
(* The zone classifiers' contract                                          *)
(***************************************************************************)
Classifiers ==
    {"assign_zones", "assign_zones_buffered", "assign_zones_vertices_first"}

\* The last pass was a classifier that ran to its end.
Classified == last_pass \in Classifiers /\ pass_result = "ok"

\* The centroid of cell k.
Centroid(k) == centroid_of_polygon(hex_cells[k].geometry.coordinates)

\* The zones of the file that have a zone_id.
NamedZones == {i \in DOMAIN zones : zones[i].zone_id # ""}

\* Zone i is a polygon or a multipolygon that contains the point.
Contains(i, pt) ==
    /\ zones[i].geometry.type \in {"Polygon", "MultiPolygon"}
    /\ point_in_geometry(pt, zones[i].geometry)

\* The zones with a zone_id that contain the centroid of cell k.
ContainingZones(k) == {i \in NamedZones : Contains(i, Centroid(k))}

\* C11: a classifier run right after a run of the same classifier leaves
\* every cell with the zone_id the first run gave it, whatever zone_id the
\* cells had before the first run.
C11_ClassifierIdempotent ==
    (Classified /\ prev_pass = last_pass) =>
        zone_ids(hex_cells) = calc.zone_ids_before

\* C11's case: the same classifier has run twice over cells that all had
\* another zone_id before; a cell is assigned and a cell is unassigned.
C11_Witness ==
    /\ Classified /\ prev_pass = last_pass
    /\ calc.prior # ""
    /\ \E j, k \in DOMAIN hex_cells :
          /\ hex_cells[j].zone_id = ""
          /\ hex_cells[k].zone_id \notin {"", calc.prior}

\* C12: after any classifier, a cell whose centroid lies in one or more
\* zones with a zone_id has the zone_id of the first of them in the file,
\* whatever the fallback makes of the cell.
C12_CentroidFirstZone ==
    Classified =>
        \A k \in DOMAIN hex_cells :
            ContainingZones(k) # {} =>
                hex_cells[k].zone_id = zones[First(ContainingZones(k))].zone_id

\* C12's case: a classifier with a fallback has run; the centroid of a cell
\* lies in two zones, the first of which has the greater zone_id.
C12_Witness ==
    /\ Classified /\ last_pass # "assign_zones"
    /\ \E k \in DOMAIN hex_cells : \E i, j \in ContainingZones(k) :
          i < j /\ str_less(zones[j].zone_id, zones[i].zone_id)

\* The number of the 6 vertices of cell k that zone i contains.
Votes(i, k) ==
    Cardinality({v \in 1..6 :
        Contains(i, <<hex_cells[k].geometry.coordinates[1][v][1],
                      hex_cells[k].geometry.coordinates[1][v][2], 1>>)})

\* The zones that win the vote of cell k: a vertex in them, more vertices
\* than in any other zone or as many and the smaller zone_id.
VoteWinners(k) ==
    {i \in NamedZones :
        /\ Votes(i, k) > 0
        /\ \A j \in NamedZones \ {i} :
              \/ Votes(j, k) < Votes(i, k)
              \/ /\ Votes(j, k) = Votes(i, k)
                 /\ str_less(zones[i].zone_id, zones[j].zone_id)}

\* C13: after the vertices-first classifier, a cell whose centroid lies in
\* no zone has the zone_id of the zone that holds most of its 6 vertices,
\* the smallest zone_id among the zones that hold as many, and "" when no
\* zone holds a vertex.
C13_VertexVote ==
    (Classified /\ last_pass = "assign_zones_vertices_first") =>
        \A k \in DOMAIN hex_cells :
            ContainingZones(k) = {} =>
                IF VoteWinners(k) = {} THEN hex_cells[k].zone_id = ""
                ELSE \E i \in VoteWinners(k) :
                         hex_cells[k].zone_id = zones[i].zone_id

\* C13's case: two zones hold as many vertices of a cell whose centroid
\* lies in no zone, and the second in the file has the smaller zone_id.
C13_Witness ==
    /\ Classified /\ last_pass = "assign_zones_vertices_first"
    /\ \E k \in DOMAIN hex_cells : \E i, j \in NamedZones :
          /\ ContainingZones(k) = {}
          /\ i < j /\ Votes(i, k) = Votes(j, k) /\ Votes(i, k) > 0
          /\ str_less(zones[j].zone_id, zones[i].zone_id)

\* The squared distance in miles from the centroid of cell k to zone i.
Dist(i, k) == distance_to_geometry_miles(Centroid(k), zones[i].geometry)

\* The zones with a zone_id that are nearest to the centroid of cell k.
Nearest(k) ==
    {i \in NamedZones :
        \A j \in NamedZones :
            Dist(i, k)[1] * Dist(j, k)[2] <= Dist(j, k)[1] * Dist(i, k)[2]}

\* C14: after the buffered classifier, a cell whose centroid lies in no
\* zone has the zone_id of the first of the zones nearest to its centroid
\* when that distance is at most 25 miles, and "" otherwise.
C14_NearestWithinBuffer ==
    (Classified /\ last_pass = "assign_zones_buffered") =>
        \A k \in DOMAIN hex_cells :
            ContainingZones(k) = {} =>
                hex_cells[k].zone_id =
                    IF /\ NamedZones # {}
                       /\ Dist(First(Nearest(k)), k)[1]
                              <= 625 * Dist(First(Nearest(k)), k)[2]
                    THEN zones[First(Nearest(k))].zone_id
                    ELSE ""

\* C14's case: a cell whose centroid lies in no zone is as near to two
\* zones, within the buffer, and another cell is farther than the buffer
\* from every zone.
C14_Witness ==
    /\ Classified /\ last_pass = "assign_zones_buffered"
    /\ \E k \in DOMAIN hex_cells :
          /\ ContainingZones(k) = {}
          /\ Cardinality(Nearest(k)) >= 2
          /\ hex_cells[k].zone_id # ""
    /\ \E k \in DOMAIN hex_cells :
          /\ ContainingZones(k) = {}
          /\ NamedZones # {}
          /\ hex_cells[k].zone_id = ""

(***************************************************************************)
(* The corridor sampler on its own                                         *)
(*                                                                         *)
(* _sample_points_along_line applied to one line and one n.  The lines     *)
(* run along one latitude and may double back, so that the arc length of   *)
(* a point is not its longitude; a line of one vertex, or of equal         *)
(* vertices, has no length.  calc holds the call: coords, n, and the       *)
(* returned points once the call has returned.                             *)
(***************************************************************************)
\* The most vertices of a line.
MaxLineLen == 3

\* The greatest n asked for.
MaxN == 4

\* The longitudes of the vertices; from 0 to 40 is the straight line of the
\* specification's example, 10 miles in quarter miles.
SampleLons == {0, 4, 12, 40}

SampleLines ==
    UNION {[1..len -> {<<lon, 3>> : lon \in SampleLons}] :
              len \in 1..MaxLineLen}

\* Every variable but calc, and its value where only calc is in use.
OtherThanCalc ==
    <<hex_cells, corridors, sites, zone_rollup, tiera_targets,
      tierb_requirements, neighbor_map, satisfied_required, sites_before,
      rollup_before, last_pass, prev_pass, pass_result, tess, zones>>

OnlyCalc ==
    /\ hex_cells = <<>>
    /\ corridors = <<>>
    /\ sites = <<>>
    /\ zone_rollup = EmptyDict
    /\ tiera_targets = EmptyDict
    /\ tierb_requirements = EmptyDict
    /\ neighbor_map = EmptyDict
    /\ satisfied_required = 0
    /\ sites_before = <<>>
    /\ rollup_before = EmptyDict
    /\ last_pass = "none"
    /\ prev_pass = "none"
    /\ pass_result = "ok"
    /\ tess = TessIdle
    /\ zones = <<>>

InitSampling ==
    /\ \E coords \in SampleLines, n \in 0..MaxN :
          calc = [pc |-> "call", coords |-> coords, n |-> n, points |-> <<>>]
    /\ OnlyCalc

\* pts = _sample_points_along_line(coords, n)
SamplePointsAlongLine ==
    /\ calc.pc = "call"
    /\ calc' = [calc EXCEPT
                  !.pc = "returned",
                  !.points = sample_points_along_line(calc.coords, calc.n)]
    /\ UNCHANGED OtherThanCalc

NextSampling == SamplePointsAlongLine

SpecSampling == InitSampling /\ [][NextSampling]_vars

(***************************************************************************)
(* The sampler's contract                                                  *)
(***************************************************************************)
\* The length of the line up to its vertex j.
RECURSIVE ArcLengthTo(_, _)
ArcLengthTo(coords, j) ==
    IF j <= 1 THEN 0
    ELSE ArcLengthTo(coords, j - 1) + Abs(coords[j][1] - coords[j - 1][1])

TotalLength(coords) == ArcLengthTo(coords, Len(coords))

\* The point p = <<lon_num, lat_num, den>> lies on the line at the arc
\* length s_num / s_den from its start.
OnLineAt(coords, p, s_num, s_den) ==
    \E j \in 1..(Len(coords) - 1) :
        LET a == coords[j]
            b == coords[j + 1]
            w == ArcLengthTo(coords, j)
            seg == ArcLengthTo(coords, j + 1) - w
            dir == IF b[1] >= a[1] THEN 1 ELSE -1
        IN /\ w * s_den <= s_num
           /\ s_num <= (w + seg) * s_den
           /\ p[1] * s_den = (a[1] * s_den + dir * (s_num - w * s_den)) * p[3]
           /\ p[2] = a[2] * p[3]

\* The point p is the vertex v.
IsVertex(p, v) == p[1] = v[1] * p[3] /\ p[2] = v[2] * p[3]

Sampled == calc.pc = "returned"

\* C15: on a line of positive length the sampler returns n points, the
\* i-th of them on the line at i/(n+1) of its length from the start (the
\* half for n = 1), which is past the start and short of the end and
\* grows with i; on the straight line from 0 to 40 quarter miles, n = 3
\* gives the points at 10, 20 and 30 quarter miles.
C15_SamplesAtFractions ==
    (Sampled /\ TotalLength(calc.coords) > 0) =>
        LET L == TotalLength(calc.coords)
            n == calc.n
        IN /\ Len(calc.points) = n
           /\ \A i \in 1..n :
                 /\ OnLineAt(calc.coords, calc.points[i], L * i, n + 1)
                 /\ 0 < L * i /\ L * i < L * (n + 1)
                 /\ i < n => L * i < L * (i + 1)
           /\ (calc.coords = <<<<0, 3>>, <<40, 3>>>> /\ n = 3) =>
                 /\ IsVertex(calc.points[1], <<10, 3>>)
                 /\ IsVertex(calc.points[2], <<20, 3>>)
                 /\ IsVertex(calc.points[3], <<30, 3>>)
           /\ (calc.coords = <<<<0, 3>>, <<40, 3>>>> /\ n = 1) =>
                 IsVertex(calc.points[1], <<20, 3>>)

\* C15's case: three points were asked for on a line that doubles back.
C15_Witness ==
    /\ Sampled
    /\ calc.coords = <<<<0, 3>>, <<40, 3>>, <<12, 3>>>>
    /\ calc.n = 3
    /\ Len(calc.points) = 3

\* C16: on a line of no length and for n >= 1 the sampler returns n points,
\* each of them the first vertex of the line.
C16_DegenerateLine ==
    (Sampled /\ TotalLength(calc.coords) = 0 /\ calc.n >= 1) =>
        /\ Len(calc.points) = calc.n
        /\ \A i \in 1..calc.n : IsVertex(calc.points[i], calc.coords[1])

\* C16's case: one point was asked for on a line of two equal vertices,
\* and several on a line of one vertex.
C16_Witness ==
    /\ Sampled
    /\ TotalLength(calc.coords) = 0
    /\ \/ calc.n = 1 /\ Len(calc.coords) = 2 /\ Len(calc.points) = 1
       \/ calc.n > 1 /\ Len(calc.coords) = 1 /\ Len(calc.points) = calc.n

(***************************************************************************)
(* The seeding passes over hex files whose cells may overlap               *)
(*                                                                         *)
(* The hex files of Spec are rows of distinct columns, where a point lies  *)
(* in one cell at most.  Here a column may be taken by several features    *)
(* of the file, so that a sampled point can lie in several cells, and the  *)
(* first feature may have lost its cell_id.                                *)
(***************************************************************************)
SeedHexFiles ==
    {[k \in 1..NumCells |->
        [cell_id |-> IF k = lost THEN None ELSE CellIds[k],
         zone_id |-> IF k % 2 = 1 THEN "Z1" ELSE "Z2",
         geometry |-> [type |-> "Polygon",
                       coordinates |-> honeycomb_polygon(col[k])],
         tierB_sites_required |-> <<1>>,
         tierB_alternate_required |-> <<0>>]] :
      col \in [1..NumCells -> 0..(NumCols - 1)],
      lost \in 0..1}

InitSeed ==
    /\ hex_cells \in SeedHexFiles
    /\ corridors \in CorridorFiles
    /\ neighbor_map = EmptyDict
    /\ last_pass = "none"
    /\ tess = TessIdle
    /\ PipelineIdle

NextSeed == SeedTierA \/ SeedTierB

SpecSeed == InitSeed /\ [][NextSeed]_vars

(***************************************************************************)
(* The Tier-A seeding's contract                                           *)
(***************************************************************************)
\* The points sampled on the corridors i.. of the file, in corridor order
\* and then sample order.
RECURSIVE SampledFrom(_)
SampledFrom(i) ==
    IF i > Len(corridors) THEN <<>>
    ELSE LET c == corridors[i]
             required == Max(0, c.tierA_target_sites_min)
             alternate == Max(0, c.tierA_target_sites_max
                                    - c.tierA_target_sites_min)
         IN sample_points_along_line(c.geometry.coordinates,
                                     required + alternate)
              \o SampledFrom(i + 1)

\* The hex cells, by position in the file, whose polygon contains the
\* point; a feature without cell_id is no cell of the lookup.
CellsContaining(pt) ==
    {k \in DOMAIN hex_cells :
        /\ hex_cells[k].cell_id # None
        /\ point_in_polygon(pt, hex_cells[k].geometry.coordinates)}

InSomeCell(pt) == CellsContaining(pt) # {}

\* The Tier-A sites of the sites file, in file order.
TierASites == SelectSeq(sites, LAMBDA s : s.tier = "A")

SeededTierA == last_pass = "seed_tiera" /\ pass_result = "ok"

\* C17: after a Tier-A seeding, the Tier-A sites are the sampled points
\* that lie in some hex cell, in corridor order and then sample order; the
\* j-th of them has the id S_A_j, whatever number of points before it lay
\* in no cell, and the cell_id and zone_id of the first cell of the file
\* that contains its point.
C17_SeededIdsAndCells ==
    SeededTierA =>
        LET kept == SelectSeq(SampledFrom(1), InSomeCell)
        IN /\ Len(TierASites) = Len(kept)
           /\ \A j \in 1..Len(TierASites) :
                 LET s == TierASites[j]
                     first == hex_cells[First(CellsContaining(kept[j]))]
                 IN /\ s.site_id = <<"S_A", j>>
                    /\ s.geometry = kept[j]
                    /\ s.cell_id = first.cell_id
                    /\ s.zone_id = first.zone_id

\* C17's case: a point that lay in no cell was dropped before a point that
\* was seeded, and a seeded point lies in two cells.
C17_Witness ==
    /\ SeededTierA
    /\ \E i, j \in DOMAIN SampledFrom(1) :
          /\ i < j
          /\ ~InSomeCell(SampledFrom(1)[i])
          /\ InSomeCell(SampledFrom(1)[j])
    /\ \E j \in DOMAIN TierASites :
          Cardinality(CellsContaining(TierASites[j].geometry)) >= 2

(***************************************************************************)
(* scaffold_and_score_hexes.py: the scoring functions                      *)
(*                                                                         *)
(* A property value of a hex feature is a record [kind, num, str]: the     *)
(* key is missing, or it holds None, an int (num), a float (num tenths)    *)
(* or a string (str).  The properties p of a feature are a function from   *)
(* keys to such values.                                                    *)
(***************************************************************************)
Missing == [kind |-> "missing", num |-> 0, str |-> ""]

PyNone == [kind |-> "none", num |-> 0, str |-> ""]

PyInt(n) == [kind |-> "int", num |-> n, str |-> ""]

PyFloat(tenths) == [kind |-> "float", num |-> tenths, str |-> ""]

PyStr(s) == [kind |-> "str", num |-> 0, str |-> s]

FlagKeys ==
    <<"elev_adv_avail", "tall_struct_avail", "clutter_high",
      "backbone_los_likely">>

WeightKeys == <<"pop_weight", "critical_weight">>

\* p.get(k, default)
PyGet(p, k, default) == IF p[k].kind = "missing" THEN default ELSE p[k]

\* int(v) raises TypeError on None and ValueError on a string that is not
\* an integer literal; "0" and "1" are the literals among the strings used.
int_raises(v) ==
    \/ v.kind = "none"
    \/ v.kind = "str" /\ v.str \notin {"0", "1"}

\* int(v): an int is itself, a float is truncated towards zero, a literal
\* is parsed.
int(v) ==
    IF v.kind = "int" THEN v.num
    ELSE IF v.kind = "float"
    THEN IF v.num >= 0 THEN v.num \div 10 ELSE -((-v.num) \div 10)
    ELSE IF v.str = "1" THEN 1 ELSE 0

\* float(v), in tenths: raises as int(v) does.
float_raises(v) == int_raises(v)

float(v) ==
    IF v.kind = "int" THEN 10 * v.num
    ELSE IF v.kind = "float" THEN v.num
    ELSE IF v.str = "1" THEN 10 ELSE 0

\* The zone default table, weights in tenths.
ZoneDefaultRow(elev, tall, clutter, los, pop, crit) ==
    [elev_adv_avail |-> PyInt(elev),
     tall_struct_avail |-> PyInt(tall),
     clutter_high |-> PyInt(clutter),
     backbone_los_likely |-> PyInt(los),
     pop_weight |-> PyFloat(pop),
     critical_weight |-> PyFloat(crit)]

ZONE_DEFAULTS ==
    [Z_WEST_HIGH_RELIEF |-> ZoneDefaultRow(1, 0, 0, 1, 2, 2),
     Z_CENTRAL_LOW_RELIEF |-> ZoneDefaultRow(0, 1, 0, 1, 4, 3),
     Z_EAST_RIDGE_METRO |-> ZoneDefaultRow(1, 1, 1, 0, 6, 4),
     unassigned |-> ZoneDefaultRow(0, 0, 0, 0, 0, 0)]

\* ZONE_DEFAULTS.get(zid, ZONE_DEFAULTS[""]); the row of "" is named
\* unassigned here.
zone_defaults(zid) ==
    IF zid \in {"Z_WEST_HIGH_RELIEF", "Z_CENTRAL_LOW_RELIEF",
                "Z_EAST_RIDGE_METRO"}
    THEN ZONE_DEFAULTS[zid]
    ELSE ZONE_DEFAULTS.unassigned

clamp(x, lo, hi) == IF x < lo THEN lo ELSE IF x > hi THEN hi ELSE x

\* Whether compute_confidence_score raises on one of its four int() calls.
compute_confidence_score_raises(p) ==
    \E i \in DOMAIN FlagKeys : int_raises(PyGet(p, FlagKeys[i], PyInt(0)))

\* A score that is not the code's: clutter adds 15 instead of taking it.
compute_confidence_score_clutter_adds(p) ==
    LET elev == int(PyGet(p, "elev_adv_avail", PyInt(0)))
        tall == int(PyGet(p, "tall_struct_avail", PyInt(0)))
        clutter == int(PyGet(p, "clutter_high", PyInt(0)))
        los == int(PyGet(p, "backbone_los_likely", PyInt(0)))
    IN clamp(25 * los + 20 * elev + 20 * tall + 15 * clutter, 0, 100)

compute_confidence_score(p) ==
    LET elev == int(PyGet(p, "elev_adv_avail", PyInt(0)))
        tall == int(PyGet(p, "tall_struct_avail", PyInt(0)))
        clutter == int(PyGet(p, "clutter_high", PyInt(0)))
        los == int(PyGet(p, "backbone_los_likely", PyInt(0)))
    IN clamp(25 * los + 20 * elev + 20 * tall + 15 * (1 - clutter), 0, 100)

\* A classing that is not the code's: 70 itself is not yet HIGH.
confidence_class_above(score) ==
    IF score > 70 THEN "HIGH" ELSE IF score >= 40 THEN "MED" ELSE "LOW"

confidence_class(score) ==
    IF score >= 70 THEN "HIGH" ELSE IF score >= 40 THEN "MED" ELSE "LOW"

\* <<sites_required, alt_required>>
tierB_requirements(conf_class) ==
    IF conf_class = "LOW" THEN <<2, 1>>
    ELSE IF conf_class = "MED" THEN <<1, 1>>
    ELSE <<1, 0>>

(***************************************************************************)
(* The scoring functions on their own                                      *)
(*                                                                         *)
(* calc holds one call: of compute_confidence_score on the flags p, or of  *)
(* confidence_class and tierB_requirements on two scores, as the pass      *)
(* does on the scores of two cells.                                        *)
(***************************************************************************)
\* The flag values: 0 and 1, the key left out, and 2, which takes the sum
\* beyond both ends of the clamp.
ScoreFlagValues == {Missing, PyInt(0), PyInt(1), PyInt(2)}

ScoreFlags ==
    {[elev_adv_avail |-> e, tall_struct_avail |-> t, clutter_high |-> c,
      backbone_los_likely |-> l] :
        e \in ScoreFlagValues, t \in ScoreFlagValues,
        c \in ScoreFlagValues, l \in ScoreFlagValues}

\* The scores compute_confidence_score can return.
Scores == 0..100

InitScoring ==
    /\ \/ \E p \in ScoreFlags :
             calc = [pc |-> "score_call", p |-> p]
       \/ \E lower \in Scores, higher \in Scores :
             /\ lower <= higher
             /\ calc = [pc |-> "class_call", scores |-> <<lower, higher>>]
    /\ OnlyCalc

\* cs = compute_confidence_score(p)
ComputeConfidenceScore ==
    /\ calc.pc = "score_call"
    /\ calc' = [pc |-> "score_returned", p |-> calc.p,
                cs |-> compute_confidence_score(calc.p)]
    /\ UNCHANGED OtherThanCalc

\* cc = confidence_class(cs); sites_required, alt_required =
\* tierB_requirements(cc), for each of the two scores.
ClassAndRequirements ==
    /\ calc.pc = "class_call"
    /\ calc' = [pc |-> "class_returned", scores |-> calc.scores,
                cc |-> [i \in 1..2 |-> confidence_class(calc.scores[i])],
                req |-> [i \in 1..2 |->
                    tierB_requirements(confidence_class(calc.scores[i]))]]
    /\ UNCHANGED OtherThanCalc

NextScoring == ComputeConfidenceScore \/ ClassAndRequirements

SpecScoring == InitScoring /\ [][NextScoring]_vars

(***************************************************************************)
(* The scoring functions' contract                                         *)
(***************************************************************************)
\* The flags of the call are all 0 or 1.
ZeroOne(p) ==
    \A i \in DOMAIN FlagKeys : p[FlagKeys[i]] \in {PyInt(0), PyInt(1)}

\* C18: for flags that are 0 or 1 the score is 25 los + 20 elev + 20 tall
\* + 15 (1 - clutter), between 0 and 80; it is 80 for elev = tall = los = 1
\* and clutter = 0, and 0 for elev = tall = los = 0 and clutter = 1.
C18_ConfidenceScore ==
    (calc.pc = "score_returned" /\ ZeroOne(calc.p)) =>
        LET elev == calc.p.elev_adv_avail.num
            tall == calc.p.tall_struct_avail.num
            clutter == calc.p.clutter_high.num
            los == calc.p.backbone_los_likely.num
        IN /\ calc.cs = 25 * los + 20 * elev + 20 * tall + 15 * (1 - clutter)
           /\ calc.cs \in 0..80
           /\ (elev = 1 /\ tall = 1 /\ clutter = 0 /\ los = 1) => calc.cs = 80
           /\ (elev = 0 /\ tall = 0 /\ clutter = 1 /\ los = 0) => calc.cs = 0

\* C18's case: the score of the best flags was computed.
C18_Witness ==
    /\ calc.pc = "score_returned"
    /\ calc.p = [elev_adv_avail |-> PyInt(1), tall_struct_avail |-> PyInt(1),
                 clutter_high |-> PyInt(0), backbone_los_likely |-> PyInt(1)]
    /\ calc.cs = 80

\* C19: a score is classed HIGH iff it is at least 70, MED iff it is at
\* least 40 and less than 70, and LOW otherwise; LOW requires 2 sites and 1
\* alternate, MED 1 and 1, HIGH 1 and 0; and the higher of two scores
\* requires no more sites and no more alternates than the lower.
C19_ClassAndRequirements ==
    calc.pc = "class_returned" =>
        /\ \A i \in 1..2 :
              LET s == calc.scores[i] IN
              /\ calc.cc[i] \in {"LOW", "MED", "HIGH"}
              /\ calc.cc[i] = "HIGH" <=> s >= 70
              /\ calc.cc[i] = "MED" <=> (40 <= s /\ s < 70)
              /\ calc.cc[i] = "LOW" => calc.req[i] = <<2, 1>>
              /\ calc.cc[i] = "MED" => calc.req[i] = <<1, 1>>
              /\ calc.cc[i] = "HIGH" => calc.req[i] = <<1, 0>>
        /\ calc.req[2][1] <= calc.req[1][1]
        /\ calc.req[2][2] <= calc.req[1][2]

\* C19's case: the scores 69 and 70 were classed.
C19_Witness ==
    /\ calc.pc = "class_returned"
    /\ calc.scores = <<69, 70>>
    /\ calc.cc = <<"MED", "HIGH">>

(***************************************************************************)
(* scaffold_and_score_hexes.py: the pass                                   *)
(*                                                                         *)
(* A hex feature of this pass is the record [zone_id, props, derived]:     *)
(* props holds the four flags and the two weights, derived is <<>> until   *)
(* the pass has scored the cell and then holds the six derived fields.     *)
(***************************************************************************)
\* A scaffolding that is not the code's: a flag that is 0 counts as blank.
scaffold_flag_falsy(v, default) ==
    IF \/ v.kind \in {"missing", "none"}
       \/ v.kind = "str" /\ v.str = ""
       \/ v.kind \in {"int", "float"} /\ v.num = 0
    THEN default ELSE v

\* if k not in p or p.get(k) in (None, ""): p[k] = defaults[k]
scaffold_flag(v, default) ==
    IF \/ v.kind \in {"missing", "none"}
       \/ v.kind = "str" /\ v.str = ""
    THEN default ELSE v

\* if k not in p or p.get(k) is None: p[k] = defaults[k]
scaffold_weight(v, default) ==
    IF v.kind \in {"missing", "none"} THEN default ELSE v

\* The two scaffolding loops of main on the properties of one feature.
scaffold(props, defaults) ==
    [elev_adv_avail |->
         scaffold_flag(props.elev_adv_avail, defaults.elev_adv_avail),
     tall_struct_avail |->
         scaffold_flag(props.tall_struct_avail, defaults.tall_struct_avail),
     clutter_high |->
         scaffold_flag(props.clutter_high, defaults.clutter_high),
     backbone_los_likely |->
         scaffold_flag(props.backbone_los_likely,
                       defaults.backbone_los_likely),
     pop_weight |-> scaffold_weight(props.pop_weight, defaults.pop_weight),
     critical_weight |->
         scaffold_weight(props.critical_weight, defaults.critical_weight)]

\* compute_tierC_demand, the demand in tenths.
compute_tierC_demand(p, zid) ==
    LET pop == float(PyGet(p, "pop_weight", PyFloat(0)))
        clutter == int(PyGet(p, "clutter_high", PyInt(0)))
        demand == pop + (IF clutter # 0 THEN 2 ELSE 0)
                      + (IF zid = "Z_EAST_RIDGE_METRO" THEN 2 ELSE 0)
    IN IF demand >= 8 THEN "HIGH"
       ELSE IF demand >= 4 THEN "MED"
       ELSE "LOW"

\* round(n / 10): to the nearest integer, a half to the even one.
round_tenths(n) ==
    LET q == n \div 10
        r == n % 10
    IN IF r < 5 THEN q
       ELSE IF r > 5 THEN q + 1
       ELSE IF q % 2 = 0 THEN q ELSE q + 1

\* compute_priority_score, with confidence_score already set to conf.
compute_priority_score(p, conf) ==
    LET pop == float(PyGet(p, "pop_weight", PyFloat(0)))
        crit == float(PyGet(p, "critical_weight", PyFloat(0)))
    IN clamp(round_tenths(6 * conf + 25 * pop + 25 * crit), 0, 100)

\* Whether the body of main's loop raises on a feature: in one of the
\* int() and float() calls on its scaffolded properties.
scaffold_feature_raises(f) ==
    LET p == scaffold(f.props, zone_defaults(f.zone_id))
    IN \/ compute_confidence_score_raises(p)
       \/ float_raises(PyGet(p, "pop_weight", PyFloat(0)))
       \/ float_raises(PyGet(p, "critical_weight", PyFloat(0)))

\* The body of main's loop on a feature on which it does not raise.
scaffold_feature(f) ==
    LET p == scaffold(f.props, zone_defaults(f.zone_id))
        cs == compute_confidence_score(p)
        cc == confidence_class(cs)
    IN [zone_id |-> f.zone_id,
        props |-> p,
        derived |->
            <<[confidence_score |-> cs,
               confidence_class |-> cc,
               tierB_sites_required |-> tierB_requirements(cc)[1],
               tierB_alternate_required |-> tierB_requirements(cc)[2],
               tierC_demand_class |-> compute_tierC_demand(p, f.zone_id),
               priority_score |-> compute_priority_score(p, cs)]>>]

(***************************************************************************)
(* The scaffold-and-score pass over a hex file                             *)
(***************************************************************************)
\* The most features of the hex file.
MaxScaffoldCells == 2

\* The zones of the cells: two of the table, none, and one not in the table.
ScaffoldZones == {"Z_WEST_HIGH_RELIEF", "Z_EAST_RIDGE_METRO", "", "Z_OTHER"}

\* The ways a flag is blank.
BlankValues == {Missing, PyNone, PyStr("")}

\* The weights of a cell, pop_weight and critical_weight; the last pair
\* holds a string, on which float() raises.
WeightPairs ==
    {<<Missing, PyNone>>, <<PyNone, PyFloat(0)>>, <<PyFloat(0), PyFloat(0)>>,
     <<PyFloat(5), Missing>>, <<PyStr(""), PyFloat(5)>>}

\* The first feature of the file: each flag is 0, 1 or blank (2 below), the
\* blank ones in one of the three ways.
ScaffoldFirstCells ==
    {[zone_id |-> z,
      props |-> [elev_adv_avail |-> IF fl[1] = 2 THEN b ELSE PyInt(fl[1]),
                 tall_struct_avail |-> IF fl[2] = 2 THEN b ELSE PyInt(fl[2]),
                 clutter_high |-> IF fl[3] = 2 THEN b ELSE PyInt(fl[3]),
                 backbone_los_likely |->
                     IF fl[4] = 2 THEN b ELSE PyInt(fl[4]),
                 pop_weight |-> w[1],
                 critical_weight |-> w[2]],
      derived |-> <<>>] :
        z \in ScaffoldZones, fl \in [1..4 -> 0..2], b \in BlankValues,
        w \in WeightPairs}

\* The features after the first: a cell with nothing set, and a cell with a
\* flag on which int() raises.
ScaffoldOtherCells ==
    {[zone_id |-> "Z_WEST_HIGH_RELIEF",
      props |-> [elev_adv_avail |-> Missing, tall_struct_avail |-> Missing,
                 clutter_high |-> Missing, backbone_los_likely |-> Missing,
                 pop_weight |-> Missing, critical_weight |-> Missing],
      derived |-> <<>>],
     [zone_id |-> "Z_EAST_RIDGE_METRO",
      props |-> [elev_adv_avail |-> PyInt(0), tall_struct_avail |-> PyStr("x"),
                 clutter_high |-> PyInt(0), backbone_los_likely |-> PyInt(0),
                 pop_weight |-> PyFloat(0), critical_weight |-> PyFloat(0)],
      derived |-> <<>>]}

ScaffoldFiles ==
    {<<first>> \o rest :
        first \in ScaffoldFirstCells,
        rest \in UNION {[1..n -> ScaffoldOtherCells] :
                           n \in 0..(MaxScaffoldCells - 1)}}

InitScaffold ==
    /\ hex_cells \in ScaffoldFiles
    /\ calc = [pc |-> "scaffold", hex_before |-> hex_cells]
    /\ corridors = <<>>
    /\ neighbor_map = EmptyDict
    /\ last_pass = "none"
    /\ tess = TessIdle
    /\ zones = <<>>
    /\ sites = <<>>
    /\ zone_rollup = EmptyDict
    /\ tiera_targets = EmptyDict
    /\ tierb_requirements = EmptyDict
    /\ satisfied_required = 0
    /\ sites_before = <<>>
    /\ rollup_before = EmptyDict
    /\ prev_pass = "none"
    /\ pass_result = "ok"

\* python tools/scaffold_and_score_hexes.py: the file is rewritten after
\* the loop, so nothing is written when the loop raises on a feature.
ScaffoldAndScore ==
    LET raised == \E k \in DOMAIN hex_cells :
                      scaffold_feature_raises(hex_cells[k]) IN
    /\ hex_cells' =
           IF raised THEN hex_cells
           ELSE [k \in DOMAIN hex_cells |-> scaffold_feature(hex_cells[k])]
    /\ calc' = [calc EXCEPT !.hex_before = hex_cells]
    /\ prev_pass' = last_pass
    /\ last_pass' = "scaffold_and_score"
    /\ pass_result' = IF raised THEN "abort" ELSE "ok"
    /\ UNCHANGED <<corridors, sites, zone_rollup, tiera_targets,
                   tierb_requirements, neighbor_map, satisfied_required,
                   sites_before, rollup_before, tess, zones>>

NextScaffold == ScaffoldAndScore

SpecScaffold == InitScaffold /\ [][NextScaffold]_vars

(***************************************************************************)
(* The scaffolding's contract                                              *)
(***************************************************************************)
Scaffolded == last_pass = "scaffold_and_score" /\ pass_result = "ok"

\* The flag or weight is missing or None.
Absent(v) == v.kind \in {"missing", "none"}

\* The flag is missing, None or "".
BlankFlag(v) == Absent(v) \/ v = PyStr("")

\* The row of the default table for the zone: the unassigned row when the
\* zone is not in the table.
DefaultsFor(zid) ==
    IF zid \in DOMAIN ZONE_DEFAULTS /\ zid # "unassigned"
    THEN ZONE_DEFAULTS[zid]
    ELSE ZONE_DEFAULTS.unassigned

\* C20: after the pass, a flag that was missing, None or "" and a weight
\* that was missing or None hold the value of the default table for the
\* cell's zone, the unassigned table for a zone that is not in it; every
\* other flag and weight, an explicit 0 or 0.0 among them, is as it was.
C20_ScaffoldFillsBlanksOnly ==
    Scaffolded =>
        \A k \in DOMAIN hex_cells :
            LET before == calc.hex_before[k].props
                after == hex_cells[k].props
                defaults == DefaultsFor(calc.hex_before[k].zone_id)
            IN /\ \A i \in DOMAIN FlagKeys :
                     after[FlagKeys[i]] =
                         IF BlankFlag(before[FlagKeys[i]])
                         THEN defaults[FlagKeys[i]]
                         ELSE before[FlagKeys[i]]
               /\ \A i \in DOMAIN WeightKeys :
                     after[WeightKeys[i]] =
                         IF Absent(before[WeightKeys[i]])
                         THEN defaults[WeightKeys[i]]
                         ELSE before[WeightKeys[i]]

\* C20's case: in a cell of the east zone, whose defaults are not 0, a
\* blank flag and a None weight were filled while a flag of 0 and a weight
\* of 0.0 were kept.
C20_Witness ==
    /\ Scaffolded
    /\ \E k \in DOMAIN hex_cells :
          LET before == calc.hex_before[k].props
              after == hex_cells[k].props
          IN /\ hex_cells[k].zone_id = "Z_EAST_RIDGE_METRO"
             /\ before.elev_adv_avail = PyStr("")
             /\ after.elev_adv_avail = PyInt(1)
             /\ before.tall_struct_avail = PyInt(0)
             /\ after.tall_struct_avail = PyInt(0)
             /\ before.pop_weight = PyNone
             /\ after.pop_weight = PyFloat(6)
             /\ before.critical_weight = PyFloat(0)
             /\ after.critical_weight = PyFloat(0)

(***************************************************************************)
(* Fatal input errors of the seeding and reduction passes                  *)
(***************************************************************************)
\* The stored files hold an input error the specification calls fatal for
\* the pass that ran last: a hex feature without cell_id; for the passes
\* that read hex geometry, a hex geometry that is no Polygon (nor, for the
\* reducer, a MultiPolygon); for Tier-A seeding, a corridor without
\* corridor_id or with a geometry that is no LineString, or an empty
\* collection of corridors; for the seeding passes, no hex feature at all.
FatalInput ==
    \/ \E k \in DOMAIN hex_cells : hex_cells[k].cell_id = None
    \/ \E k \in DOMAIN hex_cells :
          hex_cells[k].geometry.type \notin {"Polygon", "MultiPolygon"}
    \/ /\ last_pass \in {"seed_tiera", "seed_tierb"}
       /\ \/ hex_cells = <<>>
          \/ \E k \in DOMAIN hex_cells :
                hex_cells[k].geometry.type # "Polygon"
    \/ /\ last_pass = "seed_tiera"
       /\ \/ corridors = <<>>
          \/ \E i \in DOMAIN corridors :
                \/ corridors[i].corridor_id = None
                \/ corridors[i].geometry.type # "LineString"

\* C21: a seeding or reduction pass that met a fatal input error aborted
\* and left the sites and the rollup as they were.
C21_FatalInputAborts ==
    (last_pass \in {"seed_tiera", "seed_tierb", "apply_tiera_coverage"}
       /\ FatalInput) =>
        /\ pass_result = "abort"
        /\ sites = sites_before
        /\ zone_rollup = rollup_before

\* C21's case: Tier-A seeding ran to its end over a hex file with a feature
\* without cell_id, and wrote sites.
C21_Witness ==
    /\ last_pass = "seed_tiera"
    /\ \E k \in DOMAIN hex_cells : hex_cells[k].cell_id = None
    /\ pass_result = "ok"
    /\ sites # sites_before

(***************************************************************************)
(* The life of a hex cell: tessellator, zone classifier, scaffold-and-score *)
(*                                                                         *)
(* The tessellator writes data/hex_cells.geojson, the classifiers and the  *)
(* scaffold-and-score pass read and rewrite it.  The features keep the     *)
(* shape the tessellator gives them: a flag or a derived number is <<n>>   *)
(* or <<>> for None, a weight is <<tenths>> or <<>>.                       *)
(***************************************************************************)
\* The properties scaffold_and_score_hexes.py loads for a feature of the
\* tessellator's shape.
loaded_flag(x) == IF x = <<>> THEN PyNone ELSE PyInt(x[1])

loaded_weight(x) == IF x = <<>> THEN PyNone ELSE PyFloat(x[1])

loaded_feature(f) ==
    [zone_id |-> f.zone_id,
     props |-> [elev_adv_avail |-> loaded_flag(f.elev_adv_avail),
                tall_struct_avail |-> loaded_flag(f.tall_struct_avail),
                clutter_high |-> loaded_flag(f.clutter_high),
                backbone_los_likely |-> loaded_flag(f.backbone_los_likely),
                pop_weight |-> loaded_weight(f.pop_weight),
                critical_weight |-> loaded_weight(f.critical_weight)],
     derived |-> <<>>]

\* The feature the pass writes back: f with the scaffolded flags and
\* weights and the derived fields of s = scaffold_feature(loaded_feature(f)).
dumped_feature(f, s) ==
    [f EXCEPT
       !.elev_adv_avail = <<s.props.elev_adv_avail.num>>,
       !.tall_struct_avail = <<s.props.tall_struct_avail.num>>,
       !.clutter_high = <<s.props.clutter_high.num>>,
       !.backbone_los_likely = <<s.props.backbone_los_likely.num>>,
       !.pop_weight = <<s.props.pop_weight.num>>,
       !.critical_weight = <<s.props.critical_weight.num>>,
       !.confidence_score = <<s.derived[1].confidence_score>>,
       !.confidence_class = s.derived[1].confidence_class,
       !.tierB_sites_required = <<s.derived[1].tierB_sites_required>>,
       !.tierB_alternate_required = <<s.derived[1].tierB_alternate_required>>,
       !.tierC_demand_class = s.derived[1].tierC_demand_class,
       !.priority_score = <<s.derived[1].priority_score>>]

\* The zones over the tessellated box: its west, its east and its north.
CellZoneGeometries ==
    {PolygonOf(Rect(-30, -3, 5, 7)),
     PolygonOf(Rect(7, -3, 40, 7)),
     PolygonOf(Rect(-30, 1, 40, 7))}

\* The zone files: one or two zones of the default table, no zone_id and
\* no geometry twice.
CellZoneFiles ==
    UNION {{[k \in 1..n |-> [zone_id |-> id[k], geometry |-> g[k]]] :
              id \in {f \in [1..n -> {"Z_WEST_HIGH_RELIEF",
                                      "Z_EAST_RIDGE_METRO"}] :
                         \A i, j \in 1..n : i < j => f[i] # f[j]},
              g \in {f \in [1..n -> CellZoneGeometries] :
                         \A i, j \in 1..n : i < j => f[i] # f[j]}} :
           n \in 1..2}

\* Nothing is stored yet; r_lon is the same in every row.
InitCells ==
    /\ \E r \in RLonValues :
          tess = [pc |-> "row", lat |-> 0, row |-> 0, lon |-> 0,
                  cell_idx |-> 0, features |-> <<>>,
                  r_lon |-> [l \in {l \in 0..TessLatMax : l % 2 = 0} |-> r]]
    /\ zones \in CellZoneFiles
    /\ calc = [pc |-> "zones", cos2 |-> <<1, 1>>, prior |-> "",
               zone_ids_before |-> <<>>, hex_before |-> <<>>]
    /\ hex_cells = <<>>
    /\ corridors = <<>>
    /\ sites = <<>>
    /\ zone_rollup = EmptyDict
    /\ tiera_targets = EmptyDict
    /\ tierb_requirements = EmptyDict
    /\ neighbor_map = EmptyDict
    /\ satisfied_required = 0
    /\ sites_before = <<>>
    /\ rollup_before = EmptyDict
    /\ last_pass = "none"
    /\ prev_pass = "none"
    /\ pass_result = "ok"

\* The classifiers, once the tessellator has written the file and before
\* the cells are scored.
CellsAssignZones ==
    /\ tess.pc = "done"
    /\ calc.pc = "zones"
    /\ AssignZones

CellsAssignZonesBuffered ==
    /\ tess.pc = "done"
    /\ calc.pc = "zones"
    /\ AssignZonesBuffered

CellsAssignZonesVerticesFirst ==
    /\ tess.pc = "done"
    /\ calc.pc = "zones"
    /\ AssignZonesVerticesFirst

\* python tools/scaffold_and_score_hexes.py on the file a classifier wrote.
CellsScaffoldAndScore ==
    LET loaded == [k \in DOMAIN hex_cells |-> loaded_feature(hex_cells[k])]
        raised == \E k \in DOMAIN loaded : scaffold_feature_raises(loaded[k])
    IN /\ tess.pc = "done"
       /\ calc.pc = "zones"
       /\ last_pass \in Classifiers
       /\ hex_cells' =
              IF raised THEN hex_cells
              ELSE [k \in DOMAIN hex_cells |->
                       dumped_feature(hex_cells[k],
                                      scaffold_feature(loaded[k]))]
       /\ calc' = [calc EXCEPT !.pc = "scored", !.hex_before = hex_cells]
       /\ prev_pass' = last_pass
       /\ last_pass' = "scaffold_and_score"
       /\ pass_result' = IF raised THEN "abort" ELSE "ok"
       /\ UNCHANGED <<corridors, sites, zone_rollup, tiera_targets,
                      tierb_requirements, neighbor_map, satisfied_required,
                      sites_before, rollup_before, tess, zones>>

NextCells ==
    \/ TessStartRow
    \/ TessEmitCell
    \/ TessEndRow
    \/ TessWrite
    \/ CellsAssignZones
    \/ CellsAssignZonesBuffered
    \/ CellsAssignZonesVerticesFirst
    \/ CellsScaffoldAndScore

SpecCells == InitCells /\ [][NextCells]_vars

(***************************************************************************)
(* The contract of a tessellated cell's scores                             *)
(***************************************************************************)
\* The flags and weights of a feature.
FlagsAndWeights(f) ==
    <<f.elev_adv_avail, f.tall_struct_avail, f.clutter_high,
      f.backbone_los_likely, f.pop_weight, f.critical_weight>>

\* C22: once the tessellator's cells have been through a classifier and
\* scored, every cell, whatever its zone, has the flags and weights it had
\* before the pass, all four flags 0, confidence_score 15, confidence_class
\* LOW, tierB_sites_required 2 and tierB_alternate_required 1.
C22_TessellatedCellScores ==
    (calc.pc = "scored" /\ pass_result = "ok") =>
        \A k \in DOMAIN hex_cells :
            LET f == hex_cells[k] IN
            /\ FlagsAndWeights(f) = FlagsAndWeights(calc.hex_before[k])
            /\ f.elev_adv_avail = <<0>>
            /\ f.tall_struct_avail = <<0>>
            /\ f.clutter_high = <<0>>
            /\ f.backbone_los_likely = <<0>>
            /\ f.confidence_score = <<15>>
            /\ f.confidence_class = "LOW"
            /\ f.tierB_sites_required = <<2>>
            /\ f.tierB_alternate_required = <<1>>

\* C22's case: cells that a classifier put in the east zone, in the west
\* zone and in no zone were scored.
C22_Witness ==
    /\ calc.pc = "scored"
    /\ pass_result = "ok"
    /\ prev_pass \in Classifiers
    /\ \A z \in {"Z_EAST_RIDGE_METRO", "Z_WEST_HIGH_RELIEF", ""} :
          \E k \in DOMAIN hex_cells :
              /\ hex_cells[k].zone_id = z
              /\ hex_cells[k].confidence_score = <<15>>

(***************************************************************************)
(* The satisfaction records over sequences of passes (specification Spec)  *)
(***************************************************************************)
\* The Tier-A sites of the sites file that site i names in satisfied_by and
\* whose coverage set holds the cell of site i.
Satisfiers(i) ==
    {a \in DOMAIN sites :
        /\ sites[a].tier = "A"
        /\ sites[a].site_id = sites[i].satisfied_by
        /\ InCoverageSet(sites[i].cell_id, sites[a])}

\* C23: whatever passes have run, every Tier-B site that is SATISFIED names
\* in satisfied_by a Tier-A site of the sites file whose own cell, or a cell
\* sharing a vertex with it, is the Tier-B site's cell, and its
\* satisfied_corridor_id is the corridor_id of that Tier-A site.
C23_SatisfiedByValid ==
    \A i \in DOMAIN sites :
        (sites[i].tier = "B" /\ sites[i].status = "SATISFIED") =>
            \E a \in Satisfiers(i) :
                sites[i].satisfied_corridor_id = sites[a].corridor_id

\* C23's case: a Tier-B site satisfied by a reducer pass is still in the
\* file after the Tier-A sites were seeded anew, and its cell is not the
\* cell of its Tier-A site.
C23_Witness ==
    /\ last_pass = "seed_tiera"
    /\ prev_pass = "apply_tiera_coverage"
    /\ pass_result = "ok"
    /\ \E i \in DOMAIN sites :
          /\ sites[i].tier = "B"
          /\ sites[i].status = "SATISFIED"
          /\ \E a \in Satisfiers(i) : sites[a].cell_id # sites[i].cell_id

====
